---- MODULE Spec2Model ----
(***************************************************************************)
(* The PSELF container of floatboat: the header and section-table codec    *)
(* (rs-utils-def/format.rs) and the runner that loads a container, scans   *)
(* its section table and extracts the first section that is in range,      *)
(* hash-valid and compatible with the host (rs-utils-def/runner.rs).       *)
(*                                                                         *)
(* Bytes are 0..255 and the layout is the code's own (12-byte header,      *)
(* 73-byte records).  A 32-bit value is kept as its two 16-bit halves      *)
(* <<hi, lo>>, since TLC's integers stop at 2^31 - 1; a usize is the same  *)
(* pair, its high half bounded by the target's pointer width.              *)
(***************************************************************************)
EXTENDS Integers, Sequences, FiniteSets, TLC

VARIABLES
    os,            \* detect_os(): the target_os the binary was built for
    build,         \* target pointer width and overflow checks of the build
    data,          \* PselfRunner.data: the container buffer
    pc,            \* position of run_pself
    header,        \* PselfRunner.header
    sections,      \* PselfRunner.sections
    idx,           \* 1-based index of the record `for sec in &self.sections` is at
    result,        \* what run_pself returned
    examined,      \* indices the loop of run has visited, in order
    boundsChecked, \* indices whose offset + length was compared with data.len()
    sliced,        \* indices for which &self.data[offset..offset+length] was taken
    hashed,        \* indices on which verify_hash was called
    compatChecked, \* indices on which is_compatible was called
    writeAttempts, \* number of fs::write calls
    writes,        \* files written by load_section, in order
    cpc,           \* codec round trip: position
    c_version,     \* codec round trip: PselfHeader.version
    c_count,       \* codec round trip: PselfHeader.section_count
    c_bytes,       \* codec round trip: the bytes to_bytes produced
    c_out,         \* codec round trip: what from_bytes returned
    s_pc,          \* section codec: position
    s_entry,       \* section codec: the SectionEntry handed to to_bytes
    s_enc,         \* section codec: what SectionEntry::to_bytes returned
    s_buf,         \* section codec: the buffer handed to the decoders
    s_hdr_fmt,     \* what format.rs PselfHeader::from_bytes returned on s_buf
    s_hdr_run,     \* what runner.rs PselfHeader::from_bytes returned on s_buf
    s_sec_fmt,     \* what format.rs SectionEntry::from_bytes returned on s_buf
    s_sec_run,     \* what runner.rs SectionEntry::from_bytes returned on s_buf
    p_root,        \* what is_root_user returned in the last request_permission
    p_attempts,    \* PermissionManager.password_attempts
    p_perms,       \* PermissionManager.permissions
    p_call,        \* the last request_permission call and what it returned
    p_fails,       \* per user: attempts refused past the root gate since the last granted
    p_uid,         \* the user id of the process that holds the PermissionManager
    p_hist,        \* per user: the last outcomes past the root gate, "F" refused, "S" granted
    h_pc,          \* HfsHunter::start_scan: position
    h_patterns,    \* HfsHunter.forbidden_patterns
    h_last,        \* the processes get_processes returned in the last scan
    h_scans,       \* scans made, counted up to a cap
    h_fired,       \* the messages on_violation was called with, in order
    hm_pc,         \* main of `serialkiller hfs`: position
    k_fingerprints, \* KdvVerifier.fingerprints
    k_call,        \* the last KdvVerifier::verify call and what it returned
    k_unknown,     \* what verify returned last for a name with no fingerprint
    k_mismatch,    \* what verify returned last for a recorded name and other content
    b_pc,          \* SerialK::create_pself: position
    b_files,       \* create_pself: the IncludedFile list
    b_i,           \* create_pself: files written so far
    b_out,         \* create_pself: the bytes written to the output file
    b_result,      \* create_pself: what it returned
    w_pc,          \* the watcher process: position
    w_files,       \* WatchManager.files
    w_disk,        \* the content of the watched paths on disk
    w_key,         \* the environment variable SERIALK_KEY
    w_events,      \* paths of the change events not yet processed
    w_last,        \* the last update_if_needed: what update saw and returned
    w_given,       \* per path: the mode it was added with; for Count, the updates that returned true
    kv_pc,         \* compute_kernel_value: position
    kv_bytes,      \* compute_kernel_value: bytes
    kv_spec,       \* compute_kernel_value: spec
    kv_i,          \* compute_kernel_value: the loop variable i
    kv_acc,        \* compute_kernel_value: acc
    t_pc,          \* per thread: position in request_permission
    t_call,        \* per thread: the user and password of its call
    t_lock,        \* the owner of each of the two mutexes
    t_wrong        \* per user: wrong passwords compared since the last granted

runVars == <<os, build, data, pc, header, sections, idx, result, examined,
             boundsChecked, sliced, hashed, compatChecked, writeAttempts, writes>>
codecVars == <<cpc, c_version, c_count, c_bytes, c_out>>
secVars == <<s_pc, s_entry, s_enc, s_buf, s_hdr_fmt, s_hdr_run, s_sec_fmt, s_sec_run>>
permVars == <<p_root, p_attempts, p_perms, p_call, p_fails, p_uid, p_hist>>
hfsVars == <<h_pc, h_patterns, h_last, h_scans, h_fired, hm_pc>>
kdvVars == <<k_fingerprints, k_call, k_unknown, k_mismatch>>
bundleVars == <<b_pc, b_files, b_i, b_out, b_result>>
watchVars == <<w_pc, w_files, w_disk, w_key, w_events, w_last, w_given>>
kernVars == <<kv_pc, kv_bytes, kv_spec, kv_i, kv_acc>>
coreVars == <<runVars, codecVars, secVars, permVars>>
threadVars == <<t_pc, t_call, t_lock, t_wrong>>
restVars == <<hfsVars, kdvVars, bundleVars, watchVars, kernVars, threadVars>>
vars == <<coreVars, restVars>>

----------------------------------------------------------------------------
(* Integers of the code *)

Half == 256 * 256

\* least significant byte first (u32::to_le_bytes)
u32_to_le_bytes(v) == <<v[2] % 256, v[2] \div 256, v[1] % 256, v[1] \div 256>>

\* u32::to_be_bytes: most significant byte first
u32_to_be_bytes(v) == <<v[1] \div 256, v[1] % 256, v[2] \div 256, v[2] % 256>>

\* u32::from_be_bytes on a 4-byte slice
u32_from_be_bytes(b) == <<b[1] * 256 + b[2], b[3] * 256 + b[4]>>

\* `as usize` of a u32: value-preserving on 32- and 64-bit targets
as_usize(v) == v

\* a small count (a length, an index) as a usize
usize_of(n) == <<n \div Half, n % Half>>

\* the mathematical sum of two usize values
usize_sum(a, b) == <<a[1] + b[1] + (a[2] + b[2]) \div Half, (a[2] + b[2]) % Half>>

usize_gt(a, b) == a[1] > b[1] \/ (a[1] = b[1] /\ a[2] > b[2])

usize_le(a, b) == ~usize_gt(a, b)

\* the targets the crate builds for: x86_64, and 32-bit x86 with overflow
\* checks on (debug profile) or off (release profile)
Builds == {"x86_64", "x86-debug", "x86-release"}

usize_bits(b) == IF b = "x86_64" THEN 64 ELSE 32

\* whether a + b leaves the usize of build b
usize_add_overflows(a, b, bld) ==
    usize_bits(bld) = 32 /\ usize_sum(a, b)[1] >= Half

\* a + b as the build computes it when it does not panic
usize_add(a, b, bld) ==
    IF usize_bits(bld) = 32
    THEN <<usize_sum(a, b)[1] % Half, usize_sum(a, b)[2]>>
    ELSE usize_sum(a, b)

----------------------------------------------------------------------------
(* Results *)

Ok(v) == [ok |-> TRUE, val |-> v, err |-> ""]
Err(e) == [ok |-> FALSE, val |-> <<>>, err |-> e]

Slice(s, from, to) == SubSeq(s, from + 1, to)

----------------------------------------------------------------------------
(* Library functions the code calls *)

\* String::from_utf8 / str::from_utf8: whether the bytes from position i on
\* are well-formed UTF-8 (the Unicode standard's table of byte sequences)
RECURSIVE Utf8From(_, _)
Utf8From(s, i) ==
    LET n == Len(s)
        cont(k) == k <= n /\ s[k] \in 128..191
        in(k, lo, hi) == k <= n /\ s[k] \in lo..hi
    IN  IF i > n THEN TRUE
        ELSE IF s[i] < 128 THEN Utf8From(s, i + 1)
        ELSE IF s[i] \in 194..223 THEN cont(i + 1) /\ Utf8From(s, i + 2)
        ELSE IF s[i] = 224 THEN in(i + 1, 160, 191) /\ cont(i + 2) /\ Utf8From(s, i + 3)
        ELSE IF s[i] \in (225..236) \cup (238..239)
             THEN cont(i + 1) /\ cont(i + 2) /\ Utf8From(s, i + 3)
        ELSE IF s[i] = 237 THEN in(i + 1, 128, 159) /\ cont(i + 2) /\ Utf8From(s, i + 3)
        ELSE IF s[i] = 240
             THEN in(i + 1, 144, 191) /\ cont(i + 2) /\ cont(i + 3) /\ Utf8From(s, i + 4)
        ELSE IF s[i] \in 241..243
             THEN cont(i + 1) /\ cont(i + 2) /\ cont(i + 3) /\ Utf8From(s, i + 4)
        ELSE IF s[i] = 244
             THEN in(i + 1, 128, 143) /\ cont(i + 2) /\ cont(i + 3) /\ Utf8From(s, i + 4)
        ELSE FALSE

from_utf8_ok(s) == Utf8From(s, 1)

\* Sha256::digest: a 32-byte digest that is a function of the content alone.
\* The compression function is stood in for by a 16-bit polynomial
\* accumulator spread over the 32 bytes.
RECURSIVE DigestAcc(_, _)
DigestAcc(content, n) ==
    IF n = 0 THEN 7
    ELSE (DigestAcc(content, n - 1) * 31 + content[n] + 1) % Half

Sha256_digest(content) ==
    LET h == DigestAcc(content, Len(content))
    IN  [k \in 1..32 |-> IF k = 1 THEN h \div 256
                         ELSE IF k = 2 THEN h % 256
                         ELSE (h + 7 * k) % 256]

\* iter().filter(|&b| b != 0).collect()
RECURSIVE filter_nonzero(_)
filter_nonzero(s) ==
    IF s = <<>> THEN <<>>
    ELSE IF Head(s) = 0 THEN filter_nonzero(Tail(s))
    ELSE <<Head(s)>> \o filter_nonzero(Tail(s))

\* vec![0u8; n]
zeros(n) == [k \in 1..n |-> 0]

----------------------------------------------------------------------------
(* format.rs: the encoder *)

MAGIC == <<20563, 17740>>   \* 0x5053454C as <<0x5053, 0x454C>>

HEADER_SIZE == 12

SECTION_SIZE == 73

\* `self.section_type as u8`
SectionType_as_u8(t) ==
    CASE t = "Elf" -> 0 [] t = "Pe" -> 1 [] t = "Macho" -> 2

\* PselfHeader::to_bytes with the three fields in another order
PselfHeader_to_bytes_swapped(version, section_count) ==
    u32_to_be_bytes(MAGIC) \o u32_to_be_bytes(section_count) \o u32_to_be_bytes(version)

\* PselfHeader::to_bytes
PselfHeader_to_bytes(version, section_count) ==
    u32_to_be_bytes(MAGIC) \o u32_to_be_bytes(version) \o u32_to_be_bytes(section_count)

\* format.rs PselfHeader::from_bytes
Fmt_PselfHeader_from_bytes(bytes) ==
    IF Len(bytes) < 12 THEN Err("Header bytes too short")
    ELSE IF u32_from_be_bytes(Slice(bytes, 0, 4)) # MAGIC THEN Err("Invalid PSELF magic")
    ELSE Ok([version |-> u32_from_be_bytes(Slice(bytes, 4, 8)),
             section_count |-> u32_from_be_bytes(Slice(bytes, 8, 12))])

\* SectionEntry::to_bytes with the zero padding put after the name
SectionEntry_to_bytes_pad_after(e) ==
    IF Len(e.name) > 32 THEN Err("Section name too long, max 32 bytes")
    ELSE Ok(<<SectionType_as_u8(e.section_type)>>
            \o e.name \o zeros(32 - Len(e.name))
            \o u32_to_be_bytes(e.offset) \o u32_to_be_bytes(e.length)
            \o e.hash)

\* SectionEntry::to_bytes
SectionEntry_to_bytes(e) ==
    IF Len(e.name) > 32 THEN Err("Section name too long, max 32 bytes")
    ELSE Ok(<<SectionType_as_u8(e.section_type)>>
            \o zeros(32 - Len(e.name)) \o e.name
            \o u32_to_be_bytes(e.offset) \o u32_to_be_bytes(e.length)
            \o e.hash)

\* format.rs SectionType::from_u8
Fmt_SectionType_from_u8(v) ==
    CASE v = 0 -> "Elf" [] v = 1 -> "Pe" [] v = 2 -> "Macho" [] OTHER -> "None"

\* str::trim_start_matches('\0') on the bytes of a valid UTF-8 string
RECURSIVE trim_start_nul(_)
trim_start_nul(s) ==
    IF s = <<>> \/ s[1] # 0 THEN s ELSE trim_start_nul(Tail(s))

\* format.rs SectionEntry::from_bytes with offset and length read from each
\* other's place
Fmt_SectionEntry_from_bytes_swapped(bytes) ==
    IF Len(bytes) < 73 THEN Err("SectionEntry bytes too short")
    ELSE IF Fmt_SectionType_from_u8(bytes[1]) = "None" THEN Err("Invalid section type")
    ELSE IF ~from_utf8_ok(Slice(bytes, 1, 33)) THEN Err("Invalid UTF-8 in section name")
    ELSE Ok([section_type |-> Fmt_SectionType_from_u8(bytes[1]),
             name |-> trim_start_nul(Slice(bytes, 1, 33)),
             offset |-> u32_from_be_bytes(Slice(bytes, 37, 41)),
             length |-> u32_from_be_bytes(Slice(bytes, 33, 37)),
             hash |-> Slice(bytes, 41, 73)])

\* format.rs SectionEntry::from_bytes: the 32 name bytes are validated as
\* UTF-8 as they stand, then the leading run of NULs is trimmed
Fmt_SectionEntry_from_bytes(bytes) ==
    IF Len(bytes) < 73 THEN Err("SectionEntry bytes too short")
    ELSE IF Fmt_SectionType_from_u8(bytes[1]) = "None" THEN Err("Invalid section type")
    ELSE IF ~from_utf8_ok(Slice(bytes, 1, 33)) THEN Err("Invalid UTF-8 in section name")
    ELSE Ok([section_type |-> Fmt_SectionType_from_u8(bytes[1]),
             name |-> trim_start_nul(Slice(bytes, 1, 33)),
             offset |-> u32_from_be_bytes(Slice(bytes, 33, 37)),
             length |-> u32_from_be_bytes(Slice(bytes, 37, 41)),
             hash |-> Slice(bytes, 41, 73)])

----------------------------------------------------------------------------
(* runner.rs: the decoders *)

\* SectionType::from_u8 that reduces the byte modulo 3 instead of rejecting it
SectionType_from_u8_wrapping(v) ==
    CASE v % 3 = 0 -> "Elf" [] v % 3 = 1 -> "Pe" [] OTHER -> "Macho"

\* SectionType::from_u8
SectionType_from_u8(v) ==
    CASE v = 0 -> "Elf" [] v = 1 -> "Pe" [] v = 2 -> "Macho" [] OTHER -> "None"

\* PselfHeader::from_bytes without the comparison with MAGIC
PselfHeader_from_bytes_any_magic(bytes) ==
    IF Len(bytes) < 12 THEN Err("Header bytes too short")
    ELSE Ok([version |-> u32_from_be_bytes(Slice(bytes, 4, 8)),
             section_count |-> u32_from_be_bytes(Slice(bytes, 8, 12))])

\* PselfHeader::from_bytes
PselfHeader_from_bytes(bytes) ==
    IF Len(bytes) < 12 THEN Err("Header bytes too short")
    ELSE IF u32_from_be_bytes(Slice(bytes, 0, 4)) # MAGIC THEN Err("Invalid PSELF magic")
    ELSE Ok([version |-> u32_from_be_bytes(Slice(bytes, 4, 8)),
             section_count |-> u32_from_be_bytes(Slice(bytes, 8, 12))])

\* SectionEntry::from_bytes that keeps the NUL bytes of the name field
SectionEntry_from_bytes_keep_nul(bytes) ==
    IF Len(bytes) < SECTION_SIZE THEN Err("SectionEntry bytes too short")
    ELSE IF SectionType_from_u8(bytes[1]) = "None" THEN Err("Invalid section type")
    ELSE IF ~from_utf8_ok(Slice(bytes, 1, 33)) THEN Err("Invalid UTF-8 in section name")
    ELSE Ok([section_type |-> SectionType_from_u8(bytes[1]),
             name |-> Slice(bytes, 1, 33),
             offset |-> as_usize(u32_from_be_bytes(Slice(bytes, 33, 37))),
             length |-> as_usize(u32_from_be_bytes(Slice(bytes, 37, 41))),
             hash |-> Slice(bytes, 41, 73)])

\* SectionEntry::from_bytes
SectionEntry_from_bytes(bytes) ==
    IF Len(bytes) < SECTION_SIZE THEN Err("SectionEntry bytes too short")
    ELSE IF SectionType_from_u8(bytes[1]) = "None" THEN Err("Invalid section type")
    ELSE IF ~from_utf8_ok(filter_nonzero(Slice(bytes, 1, 33)))
         THEN Err("Invalid UTF-8 in section name")
    ELSE Ok([section_type |-> SectionType_from_u8(bytes[1]),
             name |-> filter_nonzero(Slice(bytes, 1, 33)),
             offset |-> as_usize(u32_from_be_bytes(Slice(bytes, 33, 37))),
             length |-> as_usize(u32_from_be_bytes(Slice(bytes, 37, 41))),
             hash |-> Slice(bytes, 41, 73)])

\* verify_hash that compares the lengths of the two digests only
verify_hash_len_only(sec, content) == Len(Sha256_digest(content)) = Len(sec.hash)

\* SectionEntry::verify_hash
verify_hash(sec, content) == Sha256_digest(content) = sec.hash

----------------------------------------------------------------------------
(* runner.rs: PselfRunner *)

NoHeader == [version |-> <<0, 0>>, section_count |-> <<0, 0>>]

\* the loop with a record that fails to decode passed over instead of returned
RECURSIVE ParseSections_skip(_, _, _, _)
ParseSections_skip(d, count, i, acc) ==
    IF ~(count[1] > 0 \/ i < count[2]) THEN Ok(acc)
    ELSE LET off == HEADER_SIZE + i * SECTION_SIZE
         IN  IF off + SECTION_SIZE > Len(d) THEN Err("Not enough data for sections")
             ELSE LET sec == SectionEntry_from_bytes(Slice(d, off, off + SECTION_SIZE))
                  IN  IF ~sec.ok THEN ParseSections_skip(d, count, i + 1, acc)
                      ELSE ParseSections_skip(d, count, i + 1, Append(acc, sec.val))

\* the loop ending with the records read so far when the buffer runs out
RECURSIVE ParseSections_truncating(_, _, _, _)
ParseSections_truncating(d, count, i, acc) ==
    IF ~(count[1] > 0 \/ i < count[2]) THEN Ok(acc)
    ELSE LET off == HEADER_SIZE + i * SECTION_SIZE
         IN  IF off + SECTION_SIZE > Len(d) THEN Ok(acc)
             ELSE LET sec == SectionEntry_from_bytes(Slice(d, off, off + SECTION_SIZE))
                  IN  IF ~sec.ok THEN Err(sec.err)
                      ELSE ParseSections_truncating(d, count, i + 1, Append(acc, sec.val))

\* the loop of PselfRunner::new from record i (0-based) on
RECURSIVE ParseSections(_, _, _, _)
ParseSections(d, count, i, acc) ==
    IF ~(count[1] > 0 \/ i < count[2]) THEN Ok(acc)
    ELSE LET off == HEADER_SIZE + i * SECTION_SIZE
         IN  IF off + SECTION_SIZE > Len(d) THEN Err("Not enough data for sections")
             ELSE LET sec == SectionEntry_from_bytes(Slice(d, off, off + SECTION_SIZE))
                  IN  IF ~sec.ok THEN Err(sec.err)
                      ELSE ParseSections(d, count, i + 1, Append(acc, sec.val))

\* PselfRunner::new.  &data[0..12] is taken before the header is decoded and
\* panics on a buffer shorter than 12 bytes.
PselfRunner_new(d) ==
    IF Len(d) < 12
    THEN [outcome |-> "Panic", err |-> "range end index 12 out of range for slice",
          header |-> NoHeader, sections |-> <<>>]
    ELSE LET h == PselfHeader_from_bytes(Slice(d, 0, 12))
         IN  IF ~h.ok
             THEN [outcome |-> "Err", err |-> h.err, header |-> NoHeader, sections |-> <<>>]
             ELSE LET t == ParseSections(d, h.val.section_count, 0, <<>>)
                  IN  IF ~t.ok
                      THEN [outcome |-> "Err", err |-> t.err,
                            header |-> NoHeader, sections |-> <<>>]
                      ELSE [outcome |-> "Ok", err |-> "",
                            header |-> h.val, sections |-> t.val]

\* PselfRunner::detect_os
OsNames == {"linux", "windows", "macos", "unknown"}

\* is_compatible whose fallback arm takes an Elf section on any other platform
is_compatible_elf_fallback(section_type, os_type) ==
    CASE os_type = "linux" -> section_type = "Elf"
      [] os_type = "windows" -> section_type = "Pe"
      [] os_type = "macos" -> section_type = "Macho"
      [] OTHER -> section_type = "Elf"

\* is_compatible with the arms for windows and macos exchanged
is_compatible_crossed(section_type, os_type) ==
    CASE os_type = "linux" -> section_type = "Elf"
      [] os_type = "windows" -> section_type = "Macho"
      [] os_type = "macos" -> section_type = "Pe"
      [] OTHER -> FALSE

\* PselfRunner::is_compatible
is_compatible(section_type, os_type) ==
    CASE os_type = "linux" -> section_type = "Elf"
      [] os_type = "windows" -> section_type = "Pe"
      [] os_type = "macos" -> section_type = "Macho"
      [] OTHER -> FALSE

\* the extension load_section picks
section_ext(section_type) ==
    CASE section_type = "Elf" -> ".elf.pself"
      [] section_type = "Pe" -> ".exe.pself"
      [] section_type = "Macho" -> ".mach.pself"

\* PselfRunner::load_section: the file fs::write creates
load_section(content, section_type) ==
    [file_name |-> "output_" \o section_ext(section_type), content |-> content]

\* `sec.offset + sec.length > self.data.len()`: panics in a build with
\* overflow checks when the sum leaves usize, wraps in one without
range_check(sec, d, bld) ==
    IF usize_add_overflows(sec.offset, sec.length, bld) /\ bld = "x86-debug"
    THEN "Panic"
    ELSE IF usize_gt(usize_add(sec.offset, sec.length, bld), usize_of(Len(d)))
    THEN "OutOfRange"
    ELSE "InRange"

\* `&self.data[sec.offset..sec.offset + sec.length]`: panics when the start
\* is past the end or the end is past the buffer
slice_ok(sec, d, bld) ==
    /\ usize_le(sec.offset, usize_add(sec.offset, sec.length, bld))
    /\ usize_le(usize_add(sec.offset, sec.length, bld), usize_of(Len(d)))

\* the slice taken from the end of the section table instead
section_content_rel(sec, d, bld) ==
    LET base == HEADER_SIZE + u32_from_be_bytes(Slice(d, 8, 12))[2] * SECTION_SIZE
        len == usize_add(sec.offset, sec.length, bld)[2] - sec.offset[2]
    IN  [k \in 1..len |-> IF base + sec.offset[2] + k <= Len(d)
                          THEN d[base + sec.offset[2] + k] ELSE 0]

section_content(sec, d, bld) ==
    Slice(d, sec.offset[2], usize_add(sec.offset, sec.length, bld)[2])

\* the iteration without the `continue` after a hash mismatch
examine_no_hash_continue(sec, d, os_type, bld) ==
    IF range_check(sec, d, bld) = "Panic" THEN "PanicAdd"
    ELSE IF range_check(sec, d, bld) = "OutOfRange" THEN "SkipRange"
    ELSE IF ~slice_ok(sec, d, bld) THEN "PanicSlice"
    ELSE IF ~is_compatible(sec.section_type, os_type) THEN "SkipType"
    ELSE "Load"

\* one iteration of the loop of PselfRunner::run: how it ends
examine(sec, d, os_type, bld) ==
    IF range_check(sec, d, bld) = "Panic" THEN "PanicAdd"
    ELSE IF range_check(sec, d, bld) = "OutOfRange" THEN "SkipRange"
    ELSE IF ~slice_ok(sec, d, bld) THEN "PanicSlice"
    ELSE IF ~verify_hash(sec, section_content(sec, d, bld)) THEN "SkipHash"
    ELSE IF ~is_compatible(sec.section_type, os_type) THEN "SkipType"
    ELSE "Load"

----------------------------------------------------------------------------
(* The containers run_pself is given *)

MaxSections == 2

SectionTypes == {"Elf", "Pe", "Macho"}

\* what a record of the table is like: sound, with a stale hash, reaching
\* past the buffer, with offset + length past 2^32 - 1, with an offset
\* counted from the end of the table (and the hash of the bytes there), with
\* a type byte that is no section type, with a name that is not UTF-8
RecKinds ==
    [t : SectionTypes, v : {"ok", "badhash", "range", "wrap", "relative"}]
        \cup {[t |-> "Elf", v |-> "badtype"], [t |-> "Elf", v |-> "badname"]}

RecLists == UNION {[1..n -> RecKinds] : n \in 0..MaxSections}

SoundLists == UNION {[1..n -> [t : SectionTypes, v : {"ok"}]] : n \in 0..MaxSections}

TableEnd(n) == HEADER_SIZE + n * SECTION_SIZE

\* the bytes after the table
Payload(n) == [k \in 1..(n + 2) |-> k]

TextName == <<116, 101, 120, 116>>   \* "text"

\* the k-th of n records (1-based): its payload is 3 bytes of the payload
\* region, addressed from the start of the buffer
EntryOf(kind, n, k) ==
    [section_type |-> kind.t,
     name |-> IF kind.v = "badname" THEN <<255>> ELSE TextName,
     offset |-> CASE kind.v = "wrap" -> <<65535, 65535>>
                  [] kind.v = "relative" -> usize_of(k - 1)
                  [] OTHER -> usize_of(TableEnd(n) + k - 1),
     length |-> CASE kind.v = "range" -> usize_of(200)
                  [] kind.v = "wrap" -> usize_of(1)
                  [] OTHER -> usize_of(3),
     hash |-> IF kind.v \in {"ok", "relative", "badtype", "badname"}
              THEN Sha256_digest(SubSeq(Payload(n), k, k + 2))
              ELSE zeros(32)]

RecordBytes(kind, n, k) ==
    IF kind.v = "badtype"
    THEN [SectionEntry_to_bytes(EntryOf(kind, n, k)).val EXCEPT ![1] = 3]
    ELSE SectionEntry_to_bytes(EntryOf(kind, n, k)).val

RECURSIVE TableBytes(_, _)
TableBytes(recs, k) ==
    IF k > Len(recs) THEN <<>>
    ELSE RecordBytes(recs[k], Len(recs), k) \o TableBytes(recs, k + 1)

\* a container whose header states `count` records and whose table holds recs
Container(count, recs) ==
    PselfHeader_to_bytes(<<0, 1>>, count) \o TableBytes(recs, 1) \o Payload(Len(recs))

WellFormed == {Container(usize_of(Len(recs)), recs) : recs \in RecLists}

\* files that are no container: cut short, with another magic, or with a
\* header that states more or fewer records than the table holds
Malformed ==
    UNION {
        {Slice(Container(usize_of(Len(recs)), recs), 0, n) : n \in {0, 4, 11}}
        \cup {Slice(Container(usize_of(Len(recs)), recs), 0, TableEnd(Len(recs)) - 1)}
        \cup {[Container(usize_of(Len(recs)), recs) EXCEPT ![4] = 70]}
        \cup {Container(usize_of(Len(recs) + 1), recs)}
        \cup {Container(<<65535, 65535>>, recs)}
        \cup {Container(usize_of(Len(recs) - 1), recs) : x \in {y \in {1} : Len(recs) > 0}}
        : recs \in SoundLists}

Files == WellFormed \cup Malformed

----------------------------------------------------------------------------
(* run_pself: PselfRunner::new, then PselfRunner::run *)

\* a decoder or encoder that has not been called
NotRun == Err("not run")

\* placeholder while no SectionEntry has been drawn; its hash is no 32-byte array
NoEntry ==
    [section_type |-> "Elf", name |-> <<>>, offset |-> <<0, 0>>, length |-> <<0, 0>>,
     hash |-> <<>>]

SecIdle ==
    /\ s_pc = "idle"
    /\ s_entry = NoEntry
    /\ s_enc = NotRun
    /\ s_buf = <<>>
    /\ s_hdr_fmt = NotRun
    /\ s_hdr_run = NotRun
    /\ s_sec_fmt = NotRun
    /\ s_sec_run = NotRun

\* the user names request_permission is called with
Users == {"alice", "bob"}

\* placeholder while request_permission has not been called
NoCall == [user |-> "", password |-> "", returned |-> FALSE]

\* no PermissionManager in use
PermIdle ==
    /\ p_root = FALSE
    /\ p_attempts = {}
    /\ p_perms = {}
    /\ p_call = NoCall
    /\ p_fails = [u \in Users |-> 0]
    /\ p_uid = 0
    /\ p_hist = [u \in Users |-> <<>>]

\* placeholder while KdvVerifier::verify has not been called
NoVerify == [called |-> FALSE, name |-> "", content |-> <<>>, returned |-> FALSE]

\* placeholder while update_if_needed has not been called
NoUpdate ==
    [path |-> "", tracked |-> FALSE, mode |-> [kind |-> "None", count |-> 0],
     changed |-> FALSE, reported |-> FALSE]

\* the threads that share one PermissionManager
Threads == {"t1", "t2"}

\* nothing in use outside group: no HfsHunter scanning, no KdvVerifier in
\* use, create_pself, the watcher and compute_kernel_value not entered
RestIdleExcept(group) ==
    /\ group # "hfs" =>
          /\ h_pc = "idle"
          /\ h_patterns = <<>>
          /\ h_last = <<>>
          /\ h_scans = 0
          /\ h_fired = <<>>
          /\ hm_pc = "idle"
    /\ group # "kdv" =>
          /\ k_fingerprints = {}
          /\ k_call = NoVerify
          /\ k_unknown = NoVerify
          /\ k_mismatch = NoVerify
    /\ group # "bundle" =>
          /\ b_pc = "idle"
          /\ b_files = <<>>
          /\ b_i = 0
          /\ b_out = <<>>
          /\ b_result = "none"
    /\ group # "watch" =>
          /\ w_pc = "idle"
          /\ w_files = {}
          /\ w_disk = {}
          /\ w_key = ""
          /\ w_events = <<>>
          /\ w_last = NoUpdate
          /\ w_given = {}
    /\ group # "kernel" =>
          /\ kv_pc = "idle"
          /\ kv_bytes = <<>>
          /\ kv_spec = [endian |-> "Little", word_size |-> "Bits32", signed |-> FALSE]
          /\ kv_i = 0
          /\ kv_acc = <<0, 0, 0, 0>>
    /\ group # "threads" =>
          /\ t_pc = [t \in Threads |-> "idle"]
          /\ t_call = [t \in Threads |-> [user |-> "", password |-> ""]]
          /\ t_lock = [attempts |-> "free", perms |-> "free"]
          /\ t_wrong = [u \in Users |-> 0]

RestIdle == RestIdleExcept("none")

CodecIdle ==
    /\ cpc = "idle"
    /\ c_version = <<0, 0>>
    /\ c_count = <<0, 0>>
    /\ c_bytes = <<>>
    /\ c_out = Err("")

\* the state after std::fs::read returned the file's bytes
Init ==
    /\ os \in OsNames
    /\ build \in Builds
    /\ data \in Files
    /\ pc = "Loaded"
    /\ header = NoHeader
    /\ sections = <<>>
    /\ idx = 1
    /\ result = "none"
    /\ examined = <<>>
    /\ boundsChecked = {}
    /\ sliced = {}
    /\ hashed = {}
    /\ compatChecked = {}
    /\ writeAttempts = 0
    /\ writes = <<>>
    /\ CodecIdle
    /\ SecIdle
    /\ PermIdle
    /\ RestIdle

\* PselfRunner::new(data)?
New ==
    /\ pc = "Loaded"
    /\ LET r == PselfRunner_new(data)
       IN  /\ pc' = CASE r.outcome = "Panic" -> "Panicked"
                      [] r.outcome = "Err" -> "Failed"
                      [] r.outcome = "Ok" -> "Scanning"
           /\ result' = IF r.outcome = "Ok" THEN "none" ELSE r.err
           /\ header' = r.header
           /\ sections' = r.sections
    /\ idx' = 1
    /\ UNCHANGED <<os, build, data, examined, boundsChecked, sliced, hashed,
                   compatChecked, writeAttempts, writes>>
    /\ UNCHANGED <<codecVars, secVars, permVars>>
    /\ UNCHANGED restVars

\* the write's error dropped and the loop going on to the next record
after_write_swallowed(written) ==
    IF written THEN [pc |-> "Selected", result |-> "Ok", advance |-> 0]
    ELSE [pc |-> "Scanning", result |-> "none", advance |-> 1]

\* `self.load_section(..).map_err(|e| e.to_string())?; return Ok(());`:
\* where run goes after fs::write returned, and what it returns
after_write(written) ==
    IF written THEN [pc |-> "Selected", result |-> "Ok", advance |-> 0]
    ELSE [pc |-> "Failed", result |-> "io error", advance |-> 0]

\* one iteration of `for sec in &self.sections` in PselfRunner::run
ScanRecord ==
    /\ pc = "Scanning"
    /\ idx <= Len(sections)
    /\ LET sec == sections[idx]
           how == examine(sec, data, os, build)
       IN  /\ examined' = Append(examined, idx)
           /\ boundsChecked' = IF how = "PanicAdd" THEN boundsChecked
                               ELSE boundsChecked \cup {idx}
           /\ sliced' = IF how \in {"SkipHash", "SkipType", "Load"}
                        THEN sliced \cup {idx} ELSE sliced
           /\ hashed' = IF how \in {"SkipHash", "SkipType", "Load"}
                        THEN hashed \cup {idx} ELSE hashed
           /\ compatChecked' = IF how \in {"SkipType", "Load"}
                               THEN compatChecked \cup {idx} ELSE compatChecked
           /\ IF how \in {"PanicAdd", "PanicSlice"}
              THEN /\ pc' = "Panicked"
                   /\ result' = IF how = "PanicAdd" THEN "attempt to add with overflow"
                                ELSE "slice index starts past its end"
                   /\ UNCHANGED <<idx, writeAttempts, writes>>
              ELSE IF how = "Load"
              THEN /\ writeAttempts' = writeAttempts + 1
                   /\ \E written \in BOOLEAN :
                        /\ writes' = IF written
                                     THEN Append(writes,
                                            load_section(section_content(sec, data, build),
                                                         sec.section_type))
                                     ELSE writes
                        /\ pc' = after_write(written).pc
                        /\ result' = after_write(written).result
                        /\ idx' = idx + after_write(written).advance
              ELSE /\ idx' = idx + 1
                   /\ UNCHANGED <<pc, result, writeAttempts, writes>>
    /\ UNCHANGED <<os, build, data, header, sections>>
    /\ UNCHANGED <<codecVars, secVars, permVars>>
    /\ UNCHANGED restVars

\* the end of run with the section list taken out of the runner
Exhaust_taking ==
    /\ pc = "Scanning"
    /\ idx > Len(sections)
    /\ pc' = "Exhausted"
    /\ result' = "[ERROR] No compatible section found for this OS."
    /\ sections' = <<>>
    /\ UNCHANGED <<os, build, data, header, idx, examined, boundsChecked,
                   sliced, hashed, compatChecked, writeAttempts, writes>>
    /\ UNCHANGED <<codecVars, secVars, permVars>>
    /\ UNCHANGED restVars

\* the loop of PselfRunner::run is over: Err(no compatible section)
Exhaust ==
    /\ pc = "Scanning"
    /\ idx > Len(sections)
    /\ pc' = "Exhausted"
    /\ result' = "[ERROR] No compatible section found for this OS."
    /\ UNCHANGED <<os, build, data, header, sections, idx, examined, boundsChecked,
                   sliced, hashed, compatChecked, writeAttempts, writes>>
    /\ UNCHANGED <<codecVars, secVars, permVars>>
    /\ UNCHANGED restVars

Next == New \/ ScanRecord \/ Exhaust

Spec == Init /\ [][Next]_vars

----------------------------------------------------------------------------
(* The header codec of format.rs, applied to drawn inputs *)

U32Samples ==
    {<<hi, lo>> : hi \in {0, 1, 20563, 32768, 65535},
                  lo \in {0, 1, 255, 256, 17740, 65535}}

RunIdle ==
    /\ os = "unknown"
    /\ build = "x86_64"
    /\ data = <<>>
    /\ pc = "Idle"
    /\ header = NoHeader
    /\ sections = <<>>
    /\ idx = 1
    /\ result = "none"
    /\ examined = <<>>
    /\ boundsChecked = {}
    /\ sliced = {}
    /\ hashed = {}
    /\ compatChecked = {}
    /\ writeAttempts = 0
    /\ writes = <<>>

CodecInit ==
    /\ RunIdle
    /\ SecIdle
    /\ PermIdle
    /\ RestIdle
    /\ cpc = "input"
    /\ c_version \in U32Samples
    /\ c_count \in U32Samples
    /\ c_bytes = <<>>
    /\ c_out = Err("")

\* PselfHeader::new(version, section_count).to_bytes()
EncodeHeader ==
    /\ cpc = "input"
    /\ c_bytes' = PselfHeader_to_bytes(c_version, c_count)
    /\ cpc' = "encoded"
    /\ UNCHANGED <<c_version, c_count, c_out>>
    /\ UNCHANGED <<runVars, secVars, permVars>>
    /\ UNCHANGED restVars

\* PselfHeader::from_bytes(&header_bytes)
DecodeHeader ==
    /\ cpc = "encoded"
    /\ c_out' = Fmt_PselfHeader_from_bytes(c_bytes)
    /\ cpc' = "decoded"
    /\ UNCHANGED <<c_version, c_count, c_bytes>>
    /\ UNCHANGED <<runVars, secVars, permVars>>
    /\ UNCHANGED restVars

CodecNext == EncodeHeader \/ DecodeHeader

SpecCodec == CodecInit /\ [][CodecNext]_vars

----------------------------------------------------------------------------
(* The section codec of format.rs and the decoders of both files, applied  *)
(* to drawn entries and to drawn buffers                                   *)

\* section names: what a String can hold, as UTF-8 bytes
SecNames ==
    { <<>>,
      TextName,
      <<195, 169>>,                \* one two-byte character
      [k \in 1..32 |-> 97],        \* 32 bytes
      [k \in 1..33 |-> 97],        \* 33 bytes
      <<0, 97>>,                   \* a leading NUL
      <<97, 0, 98>>,               \* an embedded NUL
      <<97, 0>> }                  \* a trailing NUL

\* <<offset, length>> of the drawn entries
SecExtents ==
    { <<<<0, 0>>, <<0, 0>>>>,
      <<<<0, 85>>, <<0, 5>>>>,
      <<<<4660, 22136>>, <<39612, 57072>>>>,
      <<<<65535, 65535>>, <<0, 1>>>> }

\* format.rs main: the content whose hash the entry carries
MainContent == <<1, 2, 3, 4, 5>>

SecEntries ==
    { [section_type |-> t, name |-> n, offset |-> x[1], length |-> x[2], hash |-> h] :
        t \in SectionTypes, n \in SecNames, x \in SecExtents,
        h \in {Sha256_digest(MainContent), zeros(32)} }

\* the record format.rs main writes
MainRecord ==
    SectionEntry_to_bytes([section_type |-> "Elf", name |-> TextName,
                           offset |-> <<0, 0>>, length |-> <<0, 5>>,
                           hash |-> Sha256_digest(MainContent)]).val

\* MainRecord with the last bytes of its name field replaced by tail
WithNameTail(tail) ==
    [k \in 1..73 |-> IF k > 33 - Len(tail) /\ k <= 33
                     THEN tail[k - (33 - Len(tail))] ELSE MainRecord[k]]

\* buffers no encoder of the repository produced
RawBufs ==
    { <<>>,
      Slice(PselfHeader_to_bytes(<<0, 1>>, <<0, 1>>), 0, 11),
      PselfHeader_to_bytes(<<0, 1>>, <<0, 1>>),
      [PselfHeader_to_bytes(<<0, 1>>, <<0, 1>>) EXCEPT ![4] = 70],
      [PselfHeader_to_bytes(<<0, 1>>, <<0, 1>>) EXCEPT ![1] = 76, ![4] = 80],
      Slice([PselfHeader_to_bytes(<<0, 1>>, <<0, 1>>) EXCEPT ![2] = 0], 0, 11),
      PselfHeader_to_bytes(<<0, 1>>, <<0, 1>>) \o MainRecord \o MainContent,
      Slice(MainRecord, 0, 72),
      Slice([MainRecord EXCEPT ![1] = 3], 0, 72),
      MainRecord \o <<0>>,
      [MainRecord EXCEPT ![1] = 1],
      [MainRecord EXCEPT ![1] = 2],
      [MainRecord EXCEPT ![1] = 3],
      [MainRecord EXCEPT ![1] = 255],
      [MainRecord EXCEPT ![1] = 3] \o <<0>>,
      WithNameTail(<<255>>),
      WithNameTail(<<97, 0, 98>>),
      WithNameTail(<<97, 0, 0>>),
      WithNameTail(<<195, 0, 169>>),
      [WithNameTail(<<255>>) EXCEPT ![1] = 7] }

SecInit ==
    /\ RunIdle
    /\ CodecIdle
    /\ PermIdle
    /\ RestIdle
    /\ s_enc = NotRun
    /\ s_hdr_fmt = NotRun
    /\ s_hdr_run = NotRun
    /\ s_sec_fmt = NotRun
    /\ s_sec_run = NotRun
    /\ \/ /\ s_pc = "entry"
          /\ s_entry \in SecEntries
          /\ s_buf = <<>>
       \/ /\ s_pc = "bytes"
          /\ s_entry = NoEntry
          /\ s_buf \in RawBufs

\* entry.to_bytes()
EncodeSection ==
    /\ s_pc = "entry"
    /\ s_enc' = SectionEntry_to_bytes(s_entry)
    /\ s_buf' = SectionEntry_to_bytes(s_entry).val
    /\ s_pc' = IF SectionEntry_to_bytes(s_entry).ok THEN "bytes" ELSE "rejected"
    /\ UNCHANGED <<s_entry, s_hdr_fmt, s_hdr_run, s_sec_fmt, s_sec_run>>
    /\ UNCHANGED <<runVars, codecVars, permVars>>
    /\ UNCHANGED restVars

\* format.rs PselfHeader::from_bytes(&s_buf)
DecodeHeaderFmt ==
    /\ s_pc = "bytes"
    /\ s_hdr_fmt = NotRun
    /\ s_hdr_fmt' = Fmt_PselfHeader_from_bytes(s_buf)
    /\ UNCHANGED <<s_pc, s_entry, s_enc, s_buf, s_hdr_run, s_sec_fmt, s_sec_run>>
    /\ UNCHANGED <<runVars, codecVars, permVars>>
    /\ UNCHANGED restVars

\* runner.rs PselfHeader::from_bytes(&s_buf)
DecodeHeaderRunner ==
    /\ s_pc = "bytes"
    /\ s_hdr_run = NotRun
    /\ s_hdr_run' = PselfHeader_from_bytes(s_buf)
    /\ UNCHANGED <<s_pc, s_entry, s_enc, s_buf, s_hdr_fmt, s_sec_fmt, s_sec_run>>
    /\ UNCHANGED <<runVars, codecVars, permVars>>
    /\ UNCHANGED restVars

\* format.rs SectionEntry::from_bytes(&s_buf)
DecodeSectionFmt ==
    /\ s_pc = "bytes"
    /\ s_sec_fmt = NotRun
    /\ s_sec_fmt' = Fmt_SectionEntry_from_bytes(s_buf)
    /\ UNCHANGED <<s_pc, s_entry, s_enc, s_buf, s_hdr_fmt, s_hdr_run, s_sec_run>>
    /\ UNCHANGED <<runVars, codecVars, permVars>>
    /\ UNCHANGED restVars

\* runner.rs SectionEntry::from_bytes(&s_buf)
DecodeSectionRunner ==
    /\ s_pc = "bytes"
    /\ s_sec_run = NotRun
    /\ s_sec_run' = SectionEntry_from_bytes(s_buf)
    /\ UNCHANGED <<s_pc, s_entry, s_enc, s_buf, s_hdr_fmt, s_hdr_run, s_sec_fmt>>
    /\ UNCHANGED <<runVars, codecVars, permVars>>
    /\ UNCHANGED restVars

SecNext ==
    \/ EncodeSection
    \/ DecodeHeaderFmt
    \/ DecodeHeaderRunner
    \/ DecodeSectionFmt
    \/ DecodeSectionRunner

SpecSection == SecInit /\ [][SecNext]_vars

----------------------------------------------------------------------------
(* permission_manager.rs: PermissionManager.  A HashMap is the set of its  *)
(* <<key, value>> pairs.                                                   *)

MAX_ATTEMPTS == 2

VALID_PASSWORD == "s3cretpass"

\* the passwords request_permission is called with
Passwords == {VALID_PASSWORD, "letmein"}

\* HashMap::contains_key
map_has(m, k) == \E e \in m : e[1] = k

\* HashMap::get(k).cloned().unwrap_or(default)
map_get(m, k, default) ==
    IF map_has(m, k) THEN (CHOOSE e \in m : e[1] = k)[2] ELSE default

\* an insert that drops the entries of the other keys
map_insert_clobber(m, k, v) == {<<k, v>>}

\* HashMap::insert
map_insert(m, k, v) == {e \in m : e[1] # k} \cup {<<k, v>>}

\* the lockout test comparing with > in place of >=
locked_out_above(count) == count > MAX_ATTEMPTS

\* `*count >= MAX_ATTEMPTS`
locked_out(count) == count >= MAX_ATTEMPTS

\* request_permission without `attempts.insert(user.to_string(), 0)`
request_permission_no_reset(root, attempts, perms, user, password) ==
    IF ~root THEN [returned |-> FALSE, attempts |-> attempts, perms |-> perms]
    ELSE LET entered == IF map_has(attempts, user) THEN attempts
                        ELSE map_insert(attempts, user, 0)
             count == map_get(entered, user, 0)
         IN  IF locked_out(count)
             THEN [returned |-> FALSE, attempts |-> entered,
                   perms |-> map_insert(perms, user, FALSE)]
             ELSE IF password = VALID_PASSWORD
             THEN [returned |-> TRUE, attempts |-> entered,
                   perms |-> map_insert(perms, user, TRUE)]
             ELSE [returned |-> FALSE, attempts |-> map_insert(entered, user, count + 1),
                   perms |-> perms]

\* PermissionManager::request_permission, both mutexes held from the lock
\* calls to the return: what it returns and the two maps it leaves
request_permission(root, attempts, perms, user, password) ==
    IF ~root THEN [returned |-> FALSE, attempts |-> attempts, perms |-> perms]
    ELSE LET entered == IF map_has(attempts, user) THEN attempts
                        ELSE map_insert(attempts, user, 0)
             count == map_get(entered, user, 0)
         IN  IF locked_out(count)
             THEN [returned |-> FALSE, attempts |-> entered,
                   perms |-> map_insert(perms, user, FALSE)]
             ELSE IF password = VALID_PASSWORD
             THEN [returned |-> TRUE, attempts |-> map_insert(entered, user, 0),
                   perms |-> map_insert(perms, user, TRUE)]
             ELSE [returned |-> FALSE, attempts |-> map_insert(entered, user, count + 1),
                   perms |-> perms]

\* PermissionManager::check_permission on the permissions map
check_permission(perms, user) == map_get(perms, user, FALSE)

\* cap of the history counter p_fails
MaxFails == 3

\* number of outcomes p_hist keeps per user
MaxHist == 4

\* Command::new("id").arg("-u").output(): the user id and a newline on the
\* standard output, Err when the command cannot be run
id_u_output(uid, spawned) == IF spawned THEN Ok(ToString(uid) \o "\n") ELSE Err("spawn")

\* is_root_user taking any output of the command for root
is_root_user_any_output(output) == output.ok

\* PermissionManager::is_root_user
is_root_user(output) == output.ok /\ output.val = "0\n"

\* h with x appended, its oldest entries dropped beyond MaxHist
Remember(h, x) ==
    IF Len(h) < MaxHist THEN Append(h, x) ELSE Append(Tail(h), x)

\* PermissionManager::new()
PermInit ==
    /\ RunIdle
    /\ CodecIdle
    /\ SecIdle
    /\ RestIdle
    /\ p_root = FALSE
    /\ p_attempts = {}
    /\ p_perms = {}
    /\ p_call = NoCall
    /\ p_fails = [u \in Users |-> 0]
    /\ p_uid \in {0, 1000}
    /\ p_hist = [u \in Users |-> <<>>]

\* manager.request_permission(user, password); is_root_user runs `id -u`
\* anew in every call, and the command may fail to run
RequestPermission ==
    \E user \in Users, password \in Passwords, spawned \in BOOLEAN :
        LET root == is_root_user(id_u_output(p_uid, spawned))
            r == request_permission(root, p_attempts, p_perms, user, password)
        IN  /\ p_root' = root
            /\ p_attempts' = r.attempts
            /\ p_perms' = r.perms
            /\ p_call' = [user |-> user, password |-> password, returned |-> r.returned]
            /\ p_fails' = [p_fails EXCEPT ![user] =
                              IF r.returned THEN 0
                              ELSE IF root /\ @ < MaxFails THEN @ + 1 ELSE @]
            /\ p_hist' = [p_hist EXCEPT ![user] =
                              IF r.returned THEN Remember(@, "S")
                              ELSE IF root THEN Remember(@, "F") ELSE @]
            /\ UNCHANGED p_uid
            /\ UNCHANGED <<runVars, codecVars, secVars>>
            /\ UNCHANGED restVars

PermNext == RequestPermission

SpecPerm == PermInit /\ [][PermNext]_vars

\* runner, codecs and permission manager not in use
CoreIdle == RunIdle /\ CodecIdle /\ SecIdle /\ PermIdle

----------------------------------------------------------------------------
(* permission_manager.rs: request_permission called from several threads   *)
(* on one PermissionManager.  The two maps are each behind a Mutex.         *)

\* a lock that never waits
mutex_free_always(owner) == TRUE

\* Mutex::lock returns once no thread holds the mutex
mutex_free(owner) == owner = "free"

\* PermissionManager::new(), shared by the threads
ThreadsInit ==
    /\ RunIdle /\ CodecIdle /\ SecIdle
    /\ RestIdleExcept("threads")
    /\ p_root = FALSE
    /\ p_attempts = {}
    /\ p_perms = {}
    /\ p_call = NoCall
    /\ p_fails = [u \in Users |-> 0]
    /\ p_uid \in {0, 1000}
    /\ p_hist = [u \in Users |-> <<>>]
    /\ t_pc = [t \in Threads |-> "idle"]
    /\ t_call = [t \in Threads |-> [user |-> "", password |-> ""]]
    /\ t_lock = [attempts |-> "free", perms |-> "free"]
    /\ t_wrong = [u \in Users |-> 0]

\* thread t enters request_permission(user, password): is_root_user, and the
\* return of false when it fails
Call(t) ==
    /\ t_pc[t] = "idle"
    /\ \E user \in Users, password \in Passwords, spawned \in BOOLEAN :
          /\ t_call' = [t_call EXCEPT ![t] = [user |-> user, password |-> password]]
          /\ t_pc' = [t_pc EXCEPT ![t] =
                          IF is_root_user(id_u_output(p_uid, spawned))
                          THEN "lock_attempts" ELSE "idle"]
    /\ UNCHANGED <<t_lock, t_wrong, permVars>>
    /\ UNCHANGED <<runVars, codecVars, secVars>>
    /\ UNCHANGED <<hfsVars, kdvVars, bundleVars, watchVars, kernVars>>

\* self.password_attempts.lock().unwrap(), then self.permissions.lock().unwrap()
Lock(t) ==
    /\ \/ /\ t_pc[t] = "lock_attempts"
          /\ mutex_free(t_lock.attempts)
          /\ t_lock' = [t_lock EXCEPT !.attempts = t]
          /\ t_pc' = [t_pc EXCEPT ![t] = "lock_perms"]
       \/ /\ t_pc[t] = "lock_perms"
          /\ mutex_free(t_lock.perms)
          /\ t_lock' = [t_lock EXCEPT !.perms = t]
          /\ t_pc' = [t_pc EXCEPT ![t] = "check"]
    /\ UNCHANGED <<t_call, t_wrong, permVars>>
    /\ UNCHANGED <<runVars, codecVars, secVars>>
    /\ UNCHANGED <<hfsVars, kdvVars, bundleVars, watchVars, kernVars>>

\* entry(user).or_insert(0), the lockout test and the password test; the
\* guards are dropped where the function returns
Check(t) ==
    /\ t_pc[t] = "check"
    /\ LET user == t_call[t].user
           entered == IF map_has(p_attempts, user) THEN p_attempts
                      ELSE map_insert(p_attempts, user, 0)
           count == map_get(entered, user, 0)
           released == [attempts |-> "free", perms |-> "free"]
       IN  IF locked_out(count)
           THEN /\ p_attempts' = entered
                /\ p_perms' = map_insert(p_perms, user, FALSE)
                /\ t_lock' = released
                /\ t_pc' = [t_pc EXCEPT ![t] = "idle"]
                /\ UNCHANGED t_wrong
           ELSE IF t_call[t].password = VALID_PASSWORD
           THEN /\ p_attempts' = map_insert(entered, user, 0)
                /\ p_perms' = map_insert(p_perms, user, TRUE)
                /\ t_lock' = released
                /\ t_pc' = [t_pc EXCEPT ![t] = "idle"]
                /\ t_wrong' = [t_wrong EXCEPT ![user] = 0]
           ELSE /\ p_attempts' = entered
                /\ t_wrong' = [t_wrong EXCEPT ![user] = IF @ < MaxFails THEN @ + 1 ELSE @]
                /\ t_pc' = [t_pc EXCEPT ![t] = "increment"]
                /\ UNCHANGED <<p_perms, t_lock>>
    /\ UNCHANGED <<t_call, p_root, p_call, p_fails, p_uid, p_hist>>
    /\ UNCHANGED <<runVars, codecVars, secVars>>
    /\ UNCHANGED <<hfsVars, kdvVars, bundleVars, watchVars, kernVars>>

\* *count += 1; false is returned and the guards are dropped
Increment(t) ==
    /\ t_pc[t] = "increment"
    /\ p_attempts' = map_insert(p_attempts, t_call[t].user,
                                map_get(p_attempts, t_call[t].user, 0) + 1)
    /\ t_lock' = [attempts |-> "free", perms |-> "free"]
    /\ t_pc' = [t_pc EXCEPT ![t] = "idle"]
    /\ UNCHANGED <<t_call, t_wrong, p_root, p_perms, p_call, p_fails, p_uid, p_hist>>
    /\ UNCHANGED <<runVars, codecVars, secVars>>
    /\ UNCHANGED <<hfsVars, kdvVars, bundleVars, watchVars, kernVars>>

ThreadsNext == \E t \in Threads : Call(t) \/ Lock(t) \/ Check(t) \/ Increment(t)

SpecThreads == ThreadsInit /\ [][ThreadsNext]_vars

----------------------------------------------------------------------------
(* hfs.rs: HfsHunter.  A string is the sequence of its characters.         *)

\* char::to_lowercase on the letters used here
char_to_lowercase(c) ==
    CASE c = "G" -> "g" [] c = "D" -> "d" [] c = "B" -> "b"
      [] c = "S" -> "s" [] c = "H" -> "h" [] c = "A" -> "a"
      [] OTHER -> c

\* str::to_lowercase
to_lowercase(str) == [k \in 1..Len(str) |-> char_to_lowercase(str[k])]

\* a test for the pattern at the start of the string only
str_starts_with(hay, needle) ==
    Len(needle) <= Len(hay) /\ SubSeq(hay, 1, Len(needle)) = needle

\* str::contains(&str)
str_contains(hay, needle) ==
    \E i \in 0..(Len(hay) - Len(needle)) : SubSeq(hay, i + 1, i + Len(needle)) = needle

\* the test of hfs.rs:40 for one process, over the patterns in order
process_matches(process, patterns) ==
    \E k \in 1..Len(patterns) :
        str_contains(to_lowercase(process.command), to_lowercase(patterns[k]))

\* the index of the process at which the loops of start_scan return, 0 if
\* they run to their end
first_violation(processes, patterns) ==
    IF \E i \in 1..Len(processes) : process_matches(processes[i], patterns)
    THEN CHOOSE i \in 1..Len(processes) :
            /\ process_matches(processes[i], patterns)
            /\ \A j \in 1..(i - 1) : ~process_matches(processes[j], patterns)
    ELSE 0

\* the argument of on_violation: the message names pid and command
violation_message(process) == [pid |-> process.pid, cmd |-> process.command]

\* cap of the scan counter
MaxScans == 2

\* longest process list and longest pattern list drawn
MaxProcs == 2

\* what get_processes returns, from the command names `ps -eo pid,comm` may
\* list: the k-th process listed has pid 100 + k
ProcLists ==
    LET Commands == { <<"g", "d", "b">>, <<"G", "D", "B">>, <<"b", "a", "s", "h">>,
                      <<"s", "h">>, <<"a", "g", "D", "b", "a">> }
    IN  UNION { { [k \in 1..n |-> [pid |-> 100 + k, command |-> cs[k]]] :
                    cs \in [1..n -> Commands] } : n \in 0..MaxProcs }

\* the forbidden patterns given on the command line
PatternLists ==
    LET Patterns == { <<"g", "d", "b">>, <<"G", "d", "B">>, <<"s", "h">>, <<>> }
    IN  UNION { [1..n -> Patterns] : n \in 0..MaxProcs }

\* HfsHunter::new(patterns, interval, on_violation), start_scan entered
HfsInit ==
    /\ CoreIdle
    /\ RestIdleExcept("hfs")
    /\ h_pc = "scanning"
    /\ h_patterns \in PatternLists
    /\ h_last = <<>>
    /\ h_scans = 0
    /\ h_fired = <<>>
    /\ hm_pc = "idle"

\* one iteration of the loop of start_scan: sleep, get_processes, the two
\* nested for loops
Scan ==
    /\ h_pc = "scanning"
    /\ \E processes \in ProcLists :
          LET at == first_violation(processes, h_patterns)
          IN  /\ h_last' = processes
              /\ h_scans' = IF h_scans < MaxScans THEN h_scans + 1 ELSE h_scans
              /\ h_fired' = IF at > 0
                            THEN Append(h_fired, violation_message(processes[at]))
                            ELSE h_fired
              /\ h_pc' = IF at > 0 THEN "returned" ELSE "scanning"
    /\ UNCHANGED <<h_patterns, hm_pc>>
    /\ UNCHANGED <<coreVars, kdvVars, bundleVars, watchVars, kernVars, threadVars>>

HfsNext == Scan

SpecHfs == HfsInit /\ [][HfsNext]_vars

\* `serialkiller hfs <pattern> ...`: main has entered handle_serialkiller
\* with at least one pattern
MonitorInit ==
    /\ CoreIdle
    /\ RestIdleExcept("hfs")
    /\ hm_pc = "main"
    /\ h_pc = "idle"
    /\ h_patterns \in PatternLists \ {<<>>}
    /\ h_last = <<>>
    /\ h_scans = 0
    /\ h_fired = <<>>

\* start_hfs_monitor: the task running start_scan is spawned and the
\* function returns at once
StartMonitor ==
    /\ hm_pc = "main"
    /\ hm_pc' = "spawned"
    /\ h_pc' = "scanning"
    /\ UNCHANGED <<h_patterns, h_last, h_scans, h_fired>>
    /\ UNCHANGED <<coreVars, kdvVars, bundleVars, watchVars, kernVars, threadVars>>

\* handle_serialkiller and main return: the runtime of #[tokio::main] is
\* dropped and a task still waiting in start_scan is cancelled with it
MainReturn ==
    /\ hm_pc = "spawned"
    /\ hm_pc' = "exited"
    /\ h_pc' = IF h_pc = "scanning" THEN "cancelled" ELSE h_pc
    /\ UNCHANGED <<h_patterns, h_last, h_scans, h_fired>>
    /\ UNCHANGED <<coreVars, kdvVars, bundleVars, watchVars, kernVars, threadVars>>

\* the spawned task makes one scan while the process lives; a process
\* matching a pattern is running
MonitorScan ==
    /\ hm_pc = "spawned"
    /\ Scan
    /\ first_violation(h_last', h_patterns) > 0

MonitorNext == StartMonitor \/ MainReturn \/ MonitorScan

\* main and the spawned task each go on running
SpecMonitor ==
    /\ MonitorInit
    /\ [][MonitorNext]_vars
    /\ WF_vars(StartMonitor) /\ WF_vars(MainReturn) /\ WF_vars(MonitorScan)

----------------------------------------------------------------------------
(* kdv.rs: KdvVerifier *)

\* section names (paths) and contents the verifier is given
KdvNames == {"a.bin", "b.bin"}

KdvContents == {<<>>, <<1>>, <<1, 2, 3>>}

\* KdvVerifier::compute_hash
Kdv_compute_hash(content) == Sha256_digest(content)

\* the maps load_initial_fingerprints is given: some names, each with a content
KdvSections ==
    UNION { [names -> KdvContents] : names \in SUBSET KdvNames }

\* KdvVerifier::load_initial_fingerprints
load_initial_fingerprints(fingerprints, given) ==
    {e \in fingerprints : e[1] \notin DOMAIN given}
        \cup {<<n, Kdv_compute_hash(given[n])>> : n \in DOMAIN given}

\* KdvVerifier::verify: the bool it returns
Kdv_verify(fingerprints, name, content) ==
    IF ~map_has(fingerprints, name) THEN FALSE
    ELSE IF map_get(fingerprints, name, <<>>) # Kdv_compute_hash(content) THEN FALSE
    ELSE TRUE

\* KdvVerifier::new()
KdvInit ==
    /\ CoreIdle
    /\ RestIdleExcept("kdv")
    /\ k_fingerprints = {}
    /\ k_call = NoVerify
    /\ k_unknown = NoVerify
    /\ k_mismatch = NoVerify

\* verifier.load_initial_fingerprints(&sections)
LoadInitialFingerprints ==
    /\ \E given \in KdvSections :
          k_fingerprints' = load_initial_fingerprints(k_fingerprints, given)
    /\ UNCHANGED <<k_call, k_unknown, k_mismatch>>
    /\ UNCHANGED <<coreVars, hfsVars, bundleVars, watchVars, kernVars, threadVars>>

\* verifier.verify(name, content)
Verify ==
    /\ \E name \in KdvNames, content \in KdvContents :
          LET call == [called |-> TRUE, name |-> name, content |-> content,
                       returned |-> Kdv_verify(k_fingerprints, name, content)]
          IN  /\ k_call' = call
              /\ k_unknown' = IF ~map_has(k_fingerprints, name) THEN call ELSE k_unknown
              /\ k_mismatch' = IF /\ map_has(k_fingerprints, name)
                                  /\ ~call.returned
                               THEN call ELSE k_mismatch
    /\ UNCHANGED k_fingerprints
    /\ UNCHANGED <<coreVars, hfsVars, bundleVars, watchVars, kernVars, threadVars>>

KdvNext == LoadInitialFingerprints \/ Verify

SpecKdv == KdvInit /\ [][KdvNext]_vars

----------------------------------------------------------------------------
(* serialk.rs: SerialK::create_pself.  Paths and file contents are bytes.  *)

\* the number of bytes of s from position i on that from_utf8_lossy takes as
\* one ill-formed sequence (the maximal prefix of a well-formed character)
Utf8InvalidLen(s, i) ==
    LET n == Len(s)
        cont(k) == k <= n /\ s[k] \in 128..191
        in(k, lo, hi) == k <= n /\ s[k] \in lo..hi
        upto3(first) == IF ~first THEN 1 ELSE IF cont(i + 2) THEN 3 ELSE 2
    IN  CASE s[i] = 224 -> IF in(i + 1, 160, 191) THEN 2 ELSE 1
          [] s[i] \in (225..236) \cup (238..239) -> IF cont(i + 1) THEN 2 ELSE 1
          [] s[i] = 237 -> IF in(i + 1, 128, 159) THEN 2 ELSE 1
          [] s[i] = 240 -> upto3(in(i + 1, 144, 191))
          [] s[i] \in 241..243 -> upto3(cont(i + 1))
          [] s[i] = 244 -> upto3(in(i + 1, 128, 143))
          [] OTHER -> 1

\* the length of the well-formed character at position i, 0 if there is none
Utf8CharLen(s, i) ==
    LET len == CASE s[i] < 128 -> 1
                 [] s[i] \in 194..223 -> 2
                 [] s[i] \in 224..239 -> 3
                 [] s[i] \in 240..244 -> 4
                 [] OTHER -> 0
    IN  IF len > 0 /\ i + len - 1 <= Len(s) /\ from_utf8_ok(SubSeq(s, i, i + len - 1))
        THEN len ELSE 0

\* String::from_utf8_lossy / OsStr::to_string_lossy from position i on: each
\* ill-formed sequence becomes U+FFFD
RECURSIVE to_string_lossy_from(_, _)
to_string_lossy_from(s, i) ==
    IF i > Len(s) THEN <<>>
    ELSE IF Utf8CharLen(s, i) > 0
    THEN SubSeq(s, i, i + Utf8CharLen(s, i) - 1)
            \o to_string_lossy_from(s, i + Utf8CharLen(s, i))
    ELSE <<239, 191, 189>> \o to_string_lossy_from(s, i + Utf8InvalidLen(s, i))

\* the path without its trailing separators and "." components
RECURSIVE path_trimmed(_)
path_trimmed(path) ==
    LET n == Len(path)
    IN  IF n > 1 /\ path[n] = 47 THEN path_trimmed(SubSeq(path, 1, n - 1))
        ELSE IF n > 1 /\ path[n] = 46 /\ path[n - 1] = 47
        THEN path_trimmed(SubSeq(path, 1, n - 1))
        ELSE path

\* the whole path taken for the file name
path_file_name_whole(path) == Ok(path)

\* Path::file_name: the last component when it is a normal one
path_file_name(path) ==
    LET t == path_trimmed(path)
        seps == {k \in 1..Len(t) : t[k] = 47}
        from == IF seps = {} THEN 1
                ELSE (CHOOSE k \in seps : \A j \in seps : j <= k) + 1
        last == SubSeq(t, from, Len(t))
    IN  IF last \in {<<>>, <<46>>, <<46, 46>>} THEN Err("None") ELSE Ok(last)

\* b"PSELFv12\n"
BUNDLE_MAGIC == <<80, 83, 69, 76, 70, 118, 49, 50, 10>>

\* b"PSELF-END\n"
BUNDLE_END == <<80, 83, 69, 76, 70, 45, 69, 78, 68, 10>>

\* what one iteration of the loop of create_pself writes for f
\* "--FILE:", the file name, "--\n", the content, "\n--END--\n"
file_block(f) ==
    <<45, 45, 70, 73, 76, 69, 58>> \o to_string_lossy_from(path_file_name(f.path).val, 1)
        \o <<45, 45, 10>> \o f.content
        \o <<10, 45, 45, 69, 78, 68, 45, 45, 10>>

\* longest file list drawn
MaxFiles == 2

\* files that were read, with the paths "a", "d/b.c", "/x/d.e/q" and a name
\* that is not UTF-8, "n" 0xFF "m"; the content empty, or bytes that hold the
\* builder's own markers
IncludedFiles ==
    [path : { <<97>>, <<100, 47, 98, 46, 99>>, <<47, 120, 47, 100, 46, 101, 47, 113>>, <<110, 255, 109>> },
     content : { <<>>, <<120, 10, 45, 45, 69, 78, 68, 45, 45, 10, 80, 83, 69, 76, 70, 45, 69, 78, 68, 10>> }]

FileLists == UNION { [1..n -> IncludedFiles] : n \in 0..MaxFiles }

\* create_pself(files, output_path) entered
BundleInit ==
    /\ CoreIdle
    /\ RestIdleExcept("bundle")
    /\ b_pc = "create"
    /\ b_files \in FileLists
    /\ b_i = 0
    /\ b_out = <<>>
    /\ b_result = "none"

\* File::create(output_path)?
CreateOutput ==
    /\ b_pc = "create"
    /\ \E created \in BOOLEAN :
          /\ b_pc' = IF created THEN "magic" ELSE "failed"
          /\ b_result' = IF created THEN b_result ELSE "io error"
    /\ b_out' = <<>>
    /\ UNCHANGED <<b_files, b_i>>
    /\ UNCHANGED <<coreVars, hfsVars, kdvVars, watchVars, kernVars, threadVars>>

\* out_file.write_all(b"PSELFv12\n")?: all bytes, or an error after the
\* first n of them
WriteMagic ==
    /\ b_pc = "magic"
    /\ \E n \in 0..Len(BUNDLE_MAGIC) :
          /\ b_out' = b_out \o SubSeq(BUNDLE_MAGIC, 1, n)
          /\ b_pc' = IF n = Len(BUNDLE_MAGIC) THEN "files" ELSE "failed"
          /\ b_result' = IF n = Len(BUNDLE_MAGIC) THEN b_result ELSE "io error"
    /\ UNCHANGED <<b_files, b_i>>
    /\ UNCHANGED <<coreVars, hfsVars, kdvVars, watchVars, kernVars, threadVars>>

\* one iteration of `for f in files`: file_name().unwrap() panics on a path
\* without a final component; the three write_all calls write all of the
\* block, or fail after its first n bytes
WriteFile ==
    /\ b_pc = "files"
    /\ b_i < Len(b_files)
    /\ IF ~path_file_name(b_files[b_i + 1].path).ok
       THEN /\ b_pc' = "panicked"
            /\ b_result' = "panic: unwrap on None"
            /\ UNCHANGED <<b_out, b_i>>
       ELSE \E n \in 0..Len(file_block(b_files[b_i + 1])) :
              LET block == file_block(b_files[b_i + 1])
              IN  /\ b_out' = b_out \o SubSeq(block, 1, n)
                  /\ b_i' = IF n = Len(block) THEN b_i + 1 ELSE b_i
                  /\ b_pc' = IF n = Len(block) THEN "files" ELSE "failed"
                  /\ b_result' = IF n = Len(block) THEN b_result ELSE "io error"
    /\ UNCHANGED b_files
    /\ UNCHANGED <<coreVars, hfsVars, kdvVars, watchVars, kernVars, threadVars>>

\* out_file.write_all(b"PSELF-END\n")?; Ok(())
WriteEnd ==
    /\ b_pc = "files"
    /\ b_i = Len(b_files)
    /\ \E n \in 0..Len(BUNDLE_END) :
          /\ b_out' = b_out \o SubSeq(BUNDLE_END, 1, n)
          /\ b_pc' = IF n = Len(BUNDLE_END) THEN "done" ELSE "failed"
          /\ b_result' = IF n = Len(BUNDLE_END) THEN "Ok" ELSE "io error"
    /\ UNCHANGED <<b_files, b_i>>
    /\ UNCHANGED <<coreVars, hfsVars, kdvVars, watchVars, kernVars, threadVars>>

BundleNext == CreateOutput \/ WriteMagic \/ WriteFile \/ WriteEnd

SpecBundle == BundleInit /\ [][BundleNext]_vars

----------------------------------------------------------------------------
(* serialk_watcher.rs and serialk-watcher.rs: FileEntry and WatchManager.  *)
(* Both files hold the same update and update_if_needed.                   *)

\* is::itdefine::pass_recovery_gate: key is SERIALK_KEY, "" when unset
pass_recovery_gate(key) == key = "AUTHORIZED"

\* str::lines: the text split at "\n" or "\r\n", no line for the end of a
\* text that ends with a terminator
RECURSIVE str_lines(_)
str_lines(text) ==
    IF text = <<>> THEN <<>>
    ELSE LET nls == {k \in 1..Len(text) : text[k] = 10}
             strip_cr(line) ==
                 IF line # <<>> /\ line[Len(line)] = 13
                 THEN SubSeq(line, 1, Len(line) - 1) ELSE line
         IN  IF nls = {} THEN <<text>>
             ELSE LET nl == CHOOSE k \in nls : \A j \in nls : k <= j
                  IN  <<strip_cr(SubSeq(text, 1, nl - 1))>>
                          \o str_lines(SubSeq(text, nl + 1, Len(text)))

\* FileEntry::line_value: the sum of the bytes of the line as u64, which the
\* lines drawn stay far below
RECURSIVE line_value(_)
line_value(line) == IF line = <<>> THEN 0 ELSE line[1] + line_value(Tail(line))

\* FileEntry::from_path(path).line_values, for what the path holds on disk
\* read_to_string(path).unwrap_or_default() is "" for a file that is not UTF-8
from_path_line_values(content) ==
    LET lines == str_lines(IF from_utf8_ok(content) THEN content ELSE <<>>)
    IN  [k \in 1..Len(lines) |-> line_value(lines[k])]

\* Option<LineWatch>
WatchNone == [kind |-> "None", count |-> 0]
WatchForever == [kind |-> "Forever", count |-> 0]
WatchCount(n) == [kind |-> "Count", count |-> n]

\* an update that reports every change seen while a count is set
FileEntry_update_any_change(entry, disk_content) ==
    LET new == from_path_line_values(disk_content)
        changed == new # entry.line_values
        count == entry.liner_watch.count
    IN  [entry |-> IF entry.liner_watch.kind = "None" /\ changed
                   THEN [entry EXCEPT !.line_values = new]
                   ELSE IF entry.liner_watch.kind = "Count" /\ changed /\ count > 0
                   THEN [entry EXCEPT !.liner_watch.count = count - 1]
                   ELSE entry,
         changed |-> changed,
         ret |-> changed]

\* FileEntry::update on entry when the path holds disk_content: the entry
\* afterwards and the value returned
FileEntry_update(entry, disk_content) ==
    LET new == from_path_line_values(disk_content)
        changed == new # entry.line_values
        count == entry.liner_watch.count
        left == IF changed /\ count > 0 THEN count - 1 ELSE count
    IN  CASE entry.liner_watch.kind = "Count" ->
               [entry |-> [entry EXCEPT !.liner_watch = WatchCount(left)],
                changed |-> changed,
                ret |-> changed /\ left > 0]
          [] entry.liner_watch.kind = "Forever" ->
               [entry |-> entry, changed |-> changed, ret |-> changed]
          [] OTHER ->
               [entry |-> IF changed THEN [entry EXCEPT !.line_values = new] ELSE entry,
                changed |-> changed,
                ret |-> changed]

\* largest count given to --liner-street
MaxCount == 2

\* most change events waiting in the channel
MaxEvents == 2

WatchPaths == {"f", "g"}

\* what a watched path holds: nothing, "ab\n", "ba\n" (the same sums),
\* "ab\r\n" (the same line), "ab\nc\n", and one byte that is not UTF-8
WatchContents ==
    { <<>>, <<97, 98, 10>>, <<98, 97, 10>>, <<97, 98, 13, 10>>,
      <<97, 98, 10, 99, 10>>, <<255>> }

\* --include (no liner mode), --liner-street PATH:COUNT, PATH:forever-all-day
WatchModes == {WatchNone, WatchForever} \cup {WatchCount(n) : n \in 0..MaxCount}

\* main: "f" added in any mode, "g" if given added with --include, each path
\* holding "ab\n" or nothing, then
\* watch_loop entered; SERIALK_KEY is unset (""), "AUTHORIZED" or another text
WatchInit ==
    /\ CoreIdle
    /\ RestIdleExcept("watch")
    /\ w_pc = "watching"
    /\ w_key \in {"", "AUTHORIZED", "authorized"}
    /\ \E tracked \in {{"f"}, WatchPaths} :
       \E held \in [tracked -> { <<97, 98, 10>>, <<>> }] :
       \E mode \in {m \in [tracked -> WatchModes] : "g" \in tracked => m["g"] = WatchNone} :
          /\ w_disk = {<<path, held[path]>> : path \in tracked}
          /\ w_files = {<<path, [line_values |-> from_path_line_values(held[path]),
                                  liner_watch |-> mode[path]]>> : path \in tracked}
          /\ w_given = {<<path, [mode |-> mode[path], trues |-> 0]>> : path \in tracked}
    /\ w_events = <<>>
    /\ w_last = NoUpdate

\* something writes content to a watched path; notify sends the event
Tamper ==
    /\ w_pc = "watching"
    /\ Len(w_events) < MaxEvents
    /\ \E path \in WatchPaths : \E content \in WatchContents :
          /\ map_has(w_files, path)
          /\ w_disk' = map_insert(w_disk, path, content)
          /\ w_events' = Append(w_events, path)
    /\ UNCHANGED <<w_pc, w_files, w_key, w_last, w_given>>
    /\ UNCHANGED <<coreVars, hfsVars, kdvVars, bundleVars, kernVars, threadVars>>

\* watch_loop takes one event and runs update_if_needed(path): update,
\* trigger, std::process::exit(1337) without the recovery gate, export_pself
UpdateIfNeeded ==
    /\ w_pc = "watching"
    /\ w_events # <<>>
    /\ LET path == Head(w_events)
           tracked == map_has(w_files, path)
           u == FileEntry_update(map_get(w_files, path, <<>>), map_get(w_disk, path, <<>>))
       IN  /\ w_files' = IF tracked THEN map_insert(w_files, path, u.entry) ELSE w_files
           /\ w_pc' = IF tracked /\ u.ret /\ ~pass_recovery_gate(w_key)
                      THEN "exited" ELSE "watching"
           /\ w_last' = [path |-> path, tracked |-> tracked,
                         mode |-> IF tracked
                                  THEN map_get(w_files, path, <<>>).liner_watch
                                  ELSE WatchNone,
                         changed |-> tracked /\ u.changed,
                         reported |-> tracked /\ u.ret]
           /\ w_given' = IF tracked /\ u.ret /\ u.entry.liner_watch.kind = "Count"
                         THEN map_insert(w_given, path,
                                         [map_get(w_given, path, <<>>)
                                             EXCEPT !.trues = @ + 1])
                         ELSE w_given
    /\ w_events' = Tail(w_events)
    /\ UNCHANGED <<w_disk, w_key>>
    /\ UNCHANGED <<coreVars, hfsVars, kdvVars, bundleVars, kernVars, threadVars>>

WatchNext == Tamper \/ UpdateIfNeeded

SpecWatch == WatchInit /\ [][WatchNext]_vars

----------------------------------------------------------------------------
(* non-float-bytesection-i86.rs: compute_kernel_value.  A u64 is four      *)
(* 16-bit limbs, the most significant first.                               *)

\* u64::from_le_bytes
u64_from_le_bytes(b) ==
    <<b[8] * 256 + b[7], b[6] * 256 + b[5], b[4] * 256 + b[3], b[2] * 256 + b[1]>>

\* u64::from_be_bytes
u64_from_be_bytes(b) ==
    <<b[1] * 256 + b[2], b[3] * 256 + b[4], b[5] * 256 + b[6], b[7] * 256 + b[8]>>

\* u64::wrapping_add
u64_wrapping_add(a, b) ==
    LET s4 == a[4] + b[4]
        s3 == a[3] + b[3] + (s4 \div Half)
        s2 == a[2] + b[2] + (s3 \div Half)
        s1 == a[1] + b[1] + (s2 \div Half)
    IN  <<s1 % Half, s2 % Half, s3 % Half, s4 % Half>>

\* the slice copied to the end of the buffer
pad_to_8_right(slice) ==
    [k \in 1..8 |-> IF k > 8 - Len(slice) THEN slice[k - (8 - Len(slice))] ELSE 0]

\* pad_to_8: the slice copied to the start of a zeroed [u8; 8]
pad_to_8(slice) == [k \in 1..8 |-> IF k <= Len(slice) THEN slice[k] ELSE 0]

\* match spec.word_size
word_len_of(spec) == IF spec.word_size = "Bits32" THEN 4 ELSE 8

\* the value of the i-th chunk, i from 0
chunk_value(bytes, spec, i) ==
    LET start == i * word_len_of(spec)
        end == start + word_len_of(spec)
        chunk == Slice(bytes, start, end)
    IN  IF spec.endian = "Little"
        THEN u64_from_le_bytes(pad_to_8(chunk))
        ELSE u64_from_be_bytes(pad_to_8(chunk))

\* most 4-byte units in the bytes drawn
MaxUnits == 4

RECURSIVE Flatten(_)
Flatten(units) == IF units = <<>> THEN <<>> ELSE Head(units) \o Flatten(Tail(units))

\* the bytes given: up to MaxUnits 4-byte units, then 0, 1 or 3 more bytes
KernBytes ==
    LET KernUnits == { <<0, 0, 0, 0>>, <<1, 0, 0, 0>>, <<255, 255, 255, 255>>,
                       <<0, 0, 0, 128>>, <<1, 2, 3, 4>> }
        KernTails == { <<>>, <<7>>, <<255, 255, 255>> }
    IN  { Flatten(units) \o tail :
            units \in UNION { [1..n -> KernUnits] : n \in 0..MaxUnits },
            tail \in KernTails }

KernelExecIntSpecs ==
    [endian : {"Little", "Big"}, word_size : {"Bits32", "Bits64"}, signed : BOOLEAN]

\* compute_kernel_value(bytes, spec) entered: acc = 0, i = 0
KernInit ==
    /\ CoreIdle
    /\ RestIdleExcept("kernel")
    /\ kv_pc = "loop"
    /\ kv_bytes \in KernBytes
    /\ kv_spec \in KernelExecIntSpecs
    /\ kv_i = 0
    /\ kv_acc = <<0, 0, 0, 0>>

\* one iteration of `for i in 0..chunks`
AddChunk ==
    /\ kv_pc = "loop"
    /\ kv_i < Len(kv_bytes) \div word_len_of(kv_spec)
    /\ kv_acc' = u64_wrapping_add(kv_acc, chunk_value(kv_bytes, kv_spec, kv_i))
    /\ kv_i' = kv_i + 1
    /\ UNCHANGED <<kv_pc, kv_bytes, kv_spec>>
    /\ UNCHANGED <<coreVars, hfsVars, kdvVars, bundleVars, watchVars, threadVars>>

\* the loop is over: acc is returned
ReturnAcc ==
    /\ kv_pc = "loop"
    /\ kv_i = Len(kv_bytes) \div word_len_of(kv_spec)
    /\ kv_pc' = "returned"
    /\ UNCHANGED <<kv_bytes, kv_spec, kv_i, kv_acc>>
    /\ UNCHANGED <<coreVars, hfsVars, kdvVars, bundleVars, watchVars, threadVars>>

KernNext == AddChunk \/ ReturnAcc

SpecKernel == KernInit /\ [][KernNext]_vars

----------------------------------------------------------------------------
(* What the claims speak of, stated on the buffer and the parsed table *)

Range(f) == {f[k] : k \in DOMAIN f}

Records == 1..Len(sections)

\* offset + length <= buffer length, as numbers
InRange(k) ==
    usize_le(usize_sum(sections[k].offset, sections[k].length), usize_of(Len(data)))

\* buffer[offset .. offset + length], offset counted from the start of the buffer
Referenced(k) ==
    SubSeq(data, sections[k].offset[2] + 1, sections[k].offset[2] + sections[k].length[2])

HashValid(k) == InRange(k) /\ sections[k].hash = Sha256_digest(Referenced(k))

Compatible(k) ==
    <<sections[k].section_type, os>>
        \in {<<"Elf", "linux">>, <<"Pe", "windows">>, <<"Macho", "macos">>}

Eligible(k) == InRange(k) /\ HashValid(k) /\ Compatible(k)

\* PselfRunner::run has returned or panicked
RunEnded ==
    \/ pc \in {"Selected", "Exhausted"}
    \/ pc \in {"Failed", "Panicked"} /\ examined # <<>>

NoCompatible == "[ERROR] No compatible section found for this OS."

----------------------------------------------------------------------------
(* C1: when run ends in Selected, the record extracted is the lowest-index   *)
(* record that is in range, hash-valid and compatible; every record before   *)
(* it was visited and passed over, and no record after it was bounds-        *)
(* checked, sliced, hashed or extracted.                                     *)
C1_FirstMatchWins ==
    pc = "Selected" =>
        /\ idx \in Records
        /\ Eligible(idx)
        /\ \A j \in 1..(idx - 1) : ~Eligible(j) /\ j \in Range(examined)
        /\ boundsChecked \cup sliced \cup hashed \cup compatChecked \subseteq 1..idx
        /\ Range(examined) = 1..idx
        /\ writeAttempts = 1
        /\ Len(writes) = 1
        /\ writes[1].content = Referenced(idx)

\* record 1 is Pe with a valid hash, record 2 is Elf, and on linux record 2
\* is selected after record 1 was passed over
C1_Witness ==
    /\ pc = "Selected"
    /\ os = "linux"
    /\ idx = 2
    /\ sections[1].section_type = "Pe"
    /\ HashValid(1)
    /\ 1 \in compatChecked

(* C2: a record in range whose stored hash differs from the digest of the    *)
(* bytes it references is never extracted, compatible or not, and the scan   *)
(* goes on to the next record.                                               *)
C2_HashMismatchSkipped ==
    \A k \in Records :
        (k \in Range(examined) /\ InRange(k) /\ ~HashValid(k)) =>
            /\ idx = k + 1 \/ k + 1 \in Range(examined)
            /\ k \notin compatChecked
            /\ ~(writeAttempts > 0 /\ idx = k)

\* a compatible record with a stale hash was passed over and the next one
\* selected
C2_Witness ==
    /\ pc = "Selected"
    /\ idx = 2
    /\ InRange(1) /\ ~HashValid(1) /\ Compatible(1)

(* C8: in a run the output is written at most once, and only on the step     *)
(* into Selected, for a record that passed the bounds check, the hash check  *)
(* and the compatibility check.                                              *)
C8_WriteOnceOnSelected ==
    /\ Len(writes) <= 1
    /\ writeAttempts <= 1
    /\ writes # <<>> <=> pc = "Selected"
    /\ writeAttempts > 0 =>
          /\ pc \in {"Selected", "Failed"}
          /\ idx \in boundsChecked \cap hashed \cap compatChecked
          /\ InRange(idx) /\ HashValid(idx) /\ Compatible(idx)

C8_Witness ==
    /\ pc = "Selected"
    /\ Len(writes) = 1
    /\ Len(sections) = 2
    /\ idx = 1

(* C9: on Selected the bytes written are buffer[offset .. offset + length],  *)
(* the offset counted from the start of the buffer, and the file name ends   *)
(* in the suffix of the selected record's type.                              *)
C9_ExtractedBytesAndName ==
    pc = "Selected" =>
        /\ writes[1].content = Referenced(idx)
        /\ writes[1].content =
             [k \in 1..sections[idx].length[2] |-> data[sections[idx].offset[2] + k]]
        /\ writes[1].file_name =
             "output_" \o (CASE sections[idx].section_type = "Elf" -> ".elf.pself"
                             [] sections[idx].section_type = "Pe" -> ".exe.pself"
                             [] sections[idx].section_type = "Macho" -> ".mach.pself")

\* a Mach-O record past the table was extracted
C9_Witness ==
    /\ pc = "Selected"
    /\ sections[idx].section_type = "Macho"
    /\ sections[idx].offset[2] >= TableEnd(Len(sections))
    /\ writes[1].content # <<>>

(* C3: a record whose offset + length exceeds the buffer length is passed    *)
(* over without ending the run: the scan moves to the next record, the       *)
(* record is never sliced, and when the table holds a record that is in      *)
(* range, hash-valid and compatible the run still comes to extract one.      *)
C3_OutOfRangeSkipped ==
    /\ \A k \in Records :
          (k \in Range(examined) /\ ~InRange(k)) =>
              /\ idx > k
              /\ pc # "Panicked"
              /\ k \notin sliced
    /\ (RunEnded /\ \E j \in Records : Eligible(j)) => writeAttempts = 1

(* C4: when no record of the table is at once in range, hash-valid and       *)
(* compatible (the empty table included), run returns the "no compatible     *)
(* section" error and nothing is written at any point of the run.            *)
C4_NoCompatibleNoWrite ==
    (\A k \in Records : ~Eligible(k)) =>
        /\ writes = <<>>
        /\ writeAttempts = 0
        /\ RunEnded => pc = "Exhausted" /\ result = NoCompatible

----------------------------------------------------------------------------
(* The section table as it lies in the buffer *)

MagicBytes == <<80, 83, 69, 76>>   \* 0x50 0x53 0x45 0x4C

HeaderDecodes == Len(data) >= 12 /\ SubSeq(data, 1, 4) = MagicBytes

\* the section_count the header states, as <<hi, lo>>
StatedCount == <<data[9] * 256 + data[10], data[11] * 256 + data[12]>>

\* the 0-based indices of the records the header states that lie wholly
\* inside the buffer
TableRecords ==
    {i \in 0..(Len(data) \div SECTION_SIZE) :
        /\ StatedCount[1] > 0 \/ i < StatedCount[2]
        /\ 12 + 73 * (i + 1) <= Len(data)}

RawRecord(i) == SubSeq(data, 12 + 73 * i + 1, 12 + 73 * (i + 1))

\* type byte not in {0, 1, 2}, or name field not UTF-8 once its NULs are removed
Undecodable(i) ==
    \/ RawRecord(i)[1] \notin {0, 1, 2}
    \/ ~from_utf8_ok(filter_nonzero(SubSeq(RawRecord(i), 2, 33)))

\* record i decodes, lies in range, carries the digest of its bytes and has
\* the type of the host
RawEligible(i) ==
    /\ ~Undecodable(i)
    /\ LET off == <<RawRecord(i)[34] * 256 + RawRecord(i)[35],
                    RawRecord(i)[36] * 256 + RawRecord(i)[37]>>
           len == <<RawRecord(i)[38] * 256 + RawRecord(i)[39],
                    RawRecord(i)[40] * 256 + RawRecord(i)[41]>>
       IN  /\ usize_le(usize_sum(off, len), usize_of(Len(data)))
           /\ SubSeq(RawRecord(i), 42, 73)
                = Sha256_digest(SubSeq(data, off[2] + 1, off[2] + len[2]))
           /\ <<RawRecord(i)[1], os>> \in {<<0, "linux">>, <<1, "windows">>, <<2, "macos">>}

(* C5, as amended: a record of the table that fails to decode is not         *)
(* recovered from: PselfRunner::new returns that error, no runner exists,    *)
(* no record is scanned and nothing is extracted, whatever else the table    *)
(* holds.                                                                    *)
C5_DecodeFailureFailsLoad ==
    (pc # "Loaded" /\ HeaderDecodes /\ \E i \in TableRecords : Undecodable(i)) =>
        /\ pc = "Failed"
        /\ result \in {"Invalid section type", "Invalid UTF-8 in section name"}
        /\ sections = <<>>
        /\ examined = <<>>
        /\ writeAttempts = 0
        /\ writes = <<>>

\* the load failed on an undecodable record although another record of the
\* table is sound and compatible
C5_Witness ==
    /\ pc = "Failed"
    /\ HeaderDecodes
    /\ \E i, j \in TableRecords : Undecodable(i) /\ RawEligible(j)
    /\ \E i \in TableRecords :
          /\ RawRecord(i)[1] \in {0, 1, 2}
          /\ ~from_utf8_ok(filter_nonzero(SubSeq(RawRecord(i), 2, 33)))

(* C5, as claimed: a record that fails to decode is passed over alone; the   *)
(* records that decode are still loaded, and a sound compatible record       *)
(* among them is still extracted.                                            *)
C5_DecodeFailureSkipped ==
    (pc # "Loaded" /\ HeaderDecodes /\ StatedCount[1] = 0
        /\ Cardinality(TableRecords) = StatedCount[2]
        /\ \E i \in TableRecords : Undecodable(i)) =>
        /\ ~(pc = "Failed" /\ examined = <<>>)
        /\ Len(sections) = Cardinality({j \in TableRecords : ~Undecodable(j)})
        /\ (RunEnded /\ \E j \in TableRecords : RawEligible(j)) => writeAttempts = 1

(* C6: loading a buffer never panics, and a buffer shorter than 12 bytes or  *)
(* with another magic makes PselfRunner::new return an error.                *)
C6_LoadReturnsError ==
    pc # "Loaded" =>
        /\ ~(pc = "Panicked" /\ examined = <<>>)
        /\ ~HeaderDecodes =>
              /\ pc = "Failed"
              /\ result \in {"Header bytes too short", "Invalid PSELF magic"}

(* C7: a run ends in Selected, Exhausted or Failed; its steps are            *)
(* Loaded -> Scanning, Scanning -> Scanning, Scanning -> Selected,           *)
(* Scanning -> Exhausted, Loaded -> Failed and (a write that fails)          *)
(* Scanning -> Failed; the records are visited at most once each, in         *)
(* increasing order.                                                         *)
C7_StateMachine ==
    [][/\ <<pc, pc'>> \in {<<"Loaded", "Scanning">>, <<"Loaded", "Failed">>,
                           <<"Scanning", "Scanning">>, <<"Scanning", "Selected">>,
                           <<"Scanning", "Exhausted">>, <<"Scanning", "Failed">>}
       /\ \A a, b \in DOMAIN examined' : a < b => examined'[a] < examined'[b]]_vars

(* C10: encoding (version, section_count) gives the 12 bytes                 *)
(* [0x50 0x53 0x45 0x4C][version][section_count], each field 4 bytes with    *)
(* the most significant first, and decoding them gives version and           *)
(* section_count back.                                                       *)
C10_HeaderRoundTrip ==
    /\ cpc \in {"encoded", "decoded"} =>
          /\ Len(c_bytes) = 12
          /\ \A k \in 1..12 : c_bytes[k] \in 0..255
          /\ SubSeq(c_bytes, 1, 4) = MagicBytes
          /\ c_bytes[5] * 256 + c_bytes[6] = c_version[1]
          /\ c_bytes[7] * 256 + c_bytes[8] = c_version[2]
          /\ c_bytes[9] * 256 + c_bytes[10] = c_count[1]
          /\ c_bytes[11] * 256 + c_bytes[12] = c_count[2]
    /\ cpc = "decoded" =>
          /\ c_out.ok
          /\ c_out.val.version = c_version
          /\ c_out.val.section_count = c_count

\* version 0xFFFFFFFF and section_count 0x80000100 came back
C10_Witness ==
    /\ cpc = "decoded"
    /\ c_out.ok
    /\ c_version = <<65535, 65535>>
    /\ c_count = <<32768, 256>>
    /\ c_out.val.section_count = <<32768, 256>>

----------------------------------------------------------------------------
(* The section codec: what the claims speak of, stated on bytes *)

\* the four bytes of a 32-bit value, most significant first
BigEndian(v) == <<v[1] \div 256, v[1] % 256, v[2] \div 256, v[2] % 256>>

\* the 32-byte name field of a record
NameField(b) == SubSeq(b, 2, 33)

\* a sequence of bytes with every zero byte left out
WithoutNul(f) == SelectSeq(f, LAMBDA b : b # 0)

TypeOfByte(b) == CASE b = 0 -> "Elf" [] b = 1 -> "Pe" [] b = 2 -> "Macho"

\* C11: an entry whose name is at most 32 bytes and holds no NUL byte is
\* encoded by format.rs to_bytes, and format.rs from_bytes of those bytes
\* succeeds and returns an entry equal to it in type, name, offset, length
\* and hash.
C11_SectionRoundTrip ==
    (s_entry # NoEntry /\ Len(s_entry.name) <= 32 /\ 0 \notin Range(s_entry.name))
        => /\ s_pc # "rejected"
           /\ s_sec_fmt # NotRun =>
                /\ s_sec_fmt.ok
                /\ s_sec_fmt.val.section_type = s_entry.section_type
                /\ s_sec_fmt.val.name = s_entry.name
                /\ s_sec_fmt.val.offset = s_entry.offset
                /\ s_sec_fmt.val.length = s_entry.length
                /\ s_sec_fmt.val.hash = s_entry.hash

C11_Witness ==
    /\ s_entry # NoEntry
    /\ s_entry.name = <<195, 169>>
    /\ s_entry.offset = <<4660, 22136>>
    /\ s_entry.section_type = "Macho"
    /\ s_sec_fmt.ok
    /\ s_sec_fmt.val.name = <<195, 169>>

\* C12: both header decoders return 'Header bytes too short' on every buffer
\* shorter than 12 bytes, whatever its first bytes are, 'Invalid PSELF magic'
\* on every buffer of 12 bytes or more that does not start with 50 53 45 4C,
\* and succeed on every other buffer.
C12_HeaderDecodeErrors ==
    \A r \in {s_hdr_fmt, s_hdr_run} :
        r # NotRun =>
            IF Len(s_buf) < 12 THEN r = Err("Header bytes too short")
            ELSE IF SubSeq(s_buf, 1, 4) # MagicBytes THEN r = Err("Invalid PSELF magic")
            ELSE r.ok

C12_Witness ==
    /\ Len(s_buf) = 11
    /\ SubSeq(s_buf, 1, 4) # MagicBytes
    /\ s_hdr_fmt = Err("Header bytes too short")
    /\ s_hdr_run = Err("Header bytes too short")

\* C13: both section decoders return 'SectionEntry bytes too short' on every
\* buffer shorter than 73 bytes and 'Invalid section type' on every buffer of
\* 73 bytes or more whose first byte is not 0, 1 or 2; on the other buffers
\* the only failure left is the name's, and a decoded entry has type Elf, Pe
\* or Macho for first byte 0, 1 or 2.
C13_SectionDecodeErrors ==
    \A r \in {s_sec_fmt, s_sec_run} :
        r # NotRun =>
            IF Len(s_buf) < 73 THEN r = Err("SectionEntry bytes too short")
            ELSE IF s_buf[1] \notin {0, 1, 2} THEN r = Err("Invalid section type")
            ELSE IF r.ok THEN r.val.section_type = TypeOfByte(s_buf[1])
            ELSE r.err = "Invalid UTF-8 in section name"

C13_Witness ==
    /\ Len(s_buf) >= 73
    /\ s_buf[1] = 255
    /\ s_sec_fmt = Err("Invalid section type")
    /\ s_sec_run = Err("Invalid section type")

\* C14: to_bytes returns 'Section name too long, max 32 bytes' exactly when
\* the name is longer than 32 bytes; otherwise it returns 73 bytes: the type
\* byte, 32 - len(name) zero bytes followed by the name, the offset and the
\* length as 4 big-endian bytes each, and the 32 bytes of the hash.
C14_EncodeSection ==
    s_enc # NotRun =>
        IF Len(s_entry.name) > 32
        THEN s_enc = Err("Section name too long, max 32 bytes")
        ELSE /\ s_enc.ok
             /\ Len(s_enc.val) = 73
             /\ s_entry.section_type = TypeOfByte(s_enc.val[1])
             /\ \A k \in 1..32 :
                    NameField(s_enc.val)[k] =
                        IF k <= 32 - Len(s_entry.name) THEN 0
                        ELSE s_entry.name[k - (32 - Len(s_entry.name))]
             /\ SubSeq(s_enc.val, 34, 37) = BigEndian(s_entry.offset)
             /\ SubSeq(s_enc.val, 38, 41) = BigEndian(s_entry.length)
             /\ SubSeq(s_enc.val, 42, 73) = s_entry.hash

C14_Witness ==
    /\ s_enc.ok
    /\ s_entry.name = TextName
    /\ s_entry.offset = <<4660, 22136>>
    /\ s_entry.length = <<39612, 57072>>
    /\ s_entry.section_type = "Pe"
    /\ SubSeq(s_enc.val, 30, 41) = TextName \o <<18, 52, 86, 120, 154, 188, 222, 240>>

\* C15: on a 73-byte record with type byte 0, 1 or 2, the name either decoder
\* returns is the 32-byte name field with every NUL byte removed, wherever it
\* stands.
C15_AllNulsRemoved ==
    \A r \in {s_sec_fmt, s_sec_run} :
        (r # NotRun /\ Len(s_buf) = 73 /\ s_buf[1] \in {0, 1, 2} /\ r.ok)
            => r.val.name = WithoutNul(NameField(s_buf))

----------------------------------------------------------------------------
(* The runner: platform table, construction, write failure, frame *)

PlatformPairs == {<<"Elf", "linux">>, <<"Pe", "windows">>, <<"Macho", "macos">>}

\* C16: is_compatible is true exactly for (Elf, linux), (Pe, windows) and
\* (Macho, macos): every section type has exactly one platform and every
\* known platform exactly one type, and the unknown platform has none.  In a
\* run, a record that reached the compatibility check was loaded exactly
\* when its pair is one of the three, and a run on the unknown platform
\* attempts no write and never reaches Selected.
C16_Compatibility ==
    /\ \A t \in SectionTypes, o \in OsNames :
            is_compatible(t, o) <=> <<t, o>> \in PlatformPairs
    /\ \A t \in SectionTypes :
            Cardinality({o \in OsNames : is_compatible(t, o)}) = 1
    /\ \A o \in OsNames \ {"unknown"} :
            Cardinality({t \in SectionTypes : is_compatible(t, o)}) = 1
    /\ \A k \in compatChecked :
            (k = idx /\ writeAttempts > 0)
                <=> <<sections[k].section_type, os>> \in PlatformPairs
    /\ os = "unknown" => (pc # "Selected" /\ writeAttempts = 0 /\ writes = <<>>)

\* on the unknown platform two in-range, hash-valid records were refused
C16_Witness ==
    /\ os = "unknown"
    /\ pc = "Exhausted"
    /\ compatChecked = {1, 2}
    /\ sections[1].section_type # sections[2].section_type

\* PselfRunner::new returned Ok: run was entered
NewSucceeded == pc \in {"Scanning", "Selected", "Exhausted"} \/ examined # <<>>

\* the header decodes and states more records than the buffer holds after it
\* (a count of 65536 or more needs more bytes than any buffer drawn here)
UnderSupplied ==
    /\ HeaderDecodes
    /\ StatedCount[1] > 0 \/ Len(data) < 12 + 73 * StatedCount[2]

\* C17: when PselfRunner::new succeeds the buffer holds at least
\* 12 + 73 * section_count bytes and the section list has exactly
\* section_count entries, entry k decoded from the k-th 73-byte record after
\* the header; a buffer that holds fewer records than its header states
\* makes new fail, with no runner and nothing scanned.
C17_NewChecksTable ==
    /\ NewSucceeded =>
          /\ HeaderDecodes
          /\ ~UnderSupplied
          /\ header.section_count = StatedCount
          /\ Len(sections) = StatedCount[2]
          /\ \A k \in Records :
                LET rec == RawRecord(k - 1)
                IN  /\ sections[k].section_type = TypeOfByte(rec[1])
                    /\ sections[k].name = WithoutNul(NameField(rec))
                    /\ BigEndian(sections[k].offset) = SubSeq(rec, 34, 37)
                    /\ BigEndian(sections[k].length) = SubSeq(rec, 38, 41)
                    /\ sections[k].hash = SubSeq(rec, 42, 73)
    /\ (pc # "Loaded" /\ UnderSupplied) =>
          /\ pc = "Failed"
          /\ sections = <<>>
          /\ examined = <<>>
          /\ writeAttempts = 0

\* two different records were parsed, in table order
C17_Witness ==
    /\ pc = "Scanning"
    /\ Len(sections) = 2
    /\ StatedCount = <<0, 2>>
    /\ sections[1] # sections[2]
    /\ sections[2].offset # sections[1].offset

\* fs::write was called and returned an error
WriteFailed == writeAttempts > Len(writes)

\* C18: when the write of the extracted section fails the run is over at
\* once: it returns the I/O error and not "no compatible section", the
\* failed write is the only one attempted, nothing was written, and no
\* record after the one being extracted is visited, checked or sliced.
C18_WriteFailureAborts ==
    WriteFailed =>
        /\ pc = "Failed"
        /\ result = "io error"
        /\ result # NoCompatible
        /\ writeAttempts = 1
        /\ writes = <<>>
        /\ idx \in Records
        /\ Range(examined) = 1..idx
        /\ examined[Len(examined)] = idx
        /\ boundsChecked \cup sliced \cup hashed \cup compatChecked \subseteq 1..idx

\* the write for record 1 failed while record 2 was eligible too
C18_Witness ==
    /\ WriteFailed
    /\ pc = "Failed"
    /\ idx = 1
    /\ Len(sections) = 2
    /\ Eligible(2)

\* C19: from the moment PselfRunner::new has returned, no step of the run,
\* whether it skips a record, extracts one, fails on the write or ends the
\* loop, changes the runner's buffer, header or section list.
C19_RunFrame ==
    [][pc # "Loaded" =>
          /\ data' = data
          /\ header' = header
          /\ sections' = sections]_vars

\* a run over a table of two records that skipped both and ended
C19_Witness ==
    /\ pc = "Exhausted"
    /\ Len(sections) = 2
    /\ Len(examined) = 2
    /\ header.section_count = <<0, 2>>
    /\ RawRecord(1)[1] = SectionType_as_u8(sections[2].section_type)

----------------------------------------------------------------------------
(* The permission manager *)

\* C20: once two attempts for a user name have been refused past the root
\* gate with none granted in between, every later request_permission for
\* that name returns false, with the right password too, and stays so
\* whatever other calls come in between.
C20_LockoutPersists ==
    [][\A u \in Users :
          p_fails[u] >= 2 =>
              /\ p_fails'[u] >= 2
              /\ p_call'.user = u => ~p_call'.returned]_vars

\* alice, locked out, was refused with the right password as root, after bob
\* had been granted
C20_Witness ==
    /\ p_fails["alice"] >= 3
    /\ p_root
    /\ p_call = [user |-> "alice", password |-> "s3cretpass", returned |-> FALSE]
    /\ <<"bob", TRUE>> \in p_perms
    /\ <<"alice", FALSE>> \in p_perms

\* the failed-attempt counter of a user name, 0 when the map has no entry
AttemptsOf(u) ==
    IF \E e \in p_attempts : e[1] = u
    THEN (CHOOSE e \in p_attempts : e[1] = u)[2] ELSE 0

EndsWith(h, t) ==
    Len(h) >= Len(t) /\ SubSeq(h, Len(h) - Len(t) + 1, Len(h)) = t

\* C21: in a process that is not root is_root_user is false, and a call in
\* which is_root_user is false returns false for every user name and
\* password, the valid one too, and leaves the attempt counters and the
\* permissions as they were.
C21_NonRootRefused ==
    [][/\ p_uid # 0 => ~p_root'
       /\ ~p_root' =>
             /\ ~p_call'.returned
             /\ p_attempts' = p_attempts
             /\ p_perms' = p_perms]_vars

\* a process of user id 1000 was refused with the valid password
C21_Witness ==
    /\ p_uid = 1000
    /\ ~p_root
    /\ p_call = [user |-> "alice", password |-> "s3cretpass", returned |-> FALSE]
    /\ p_attempts = {}
    /\ p_perms = {}

\* C29: a request_permission call for one user name, refused, granted or
\* locked out, leaves the attempt counter and the permission entry of every
\* other user name as they were.
C29_PerUsername ==
    [][\A v \in Users :
          p_call'.user # v =>
              /\ {e \in p_attempts' : e[1] = v} = {e \in p_attempts : e[1] = v}
              /\ {e \in p_perms' : e[1] = v} = {e \in p_perms : e[1] = v}]_vars

\* alice was locked out while bob keeps his permission and one failed attempt
C29_Witness ==
    /\ p_call.user = "alice"
    /\ <<"alice", 2>> \in p_attempts
    /\ <<"alice", FALSE>> \in p_perms
    /\ <<"bob", 1>> \in p_attempts
    /\ <<"bob", TRUE>> \in p_perms

\* C30: a granted request leaves the user's counter at 0; a user is locked
\* out only with two refusals and no grant in between; after refused,
\* granted, refused the counter is 1, and the valid password is then granted.
C30_SuccessResets ==
    /\ [](\A u \in Users :
            /\ (p_call.user = u /\ p_call.returned) => AttemptsOf(u) = 0
            /\ AttemptsOf(u) >= 2 => EndsWith(p_hist[u], <<"F", "F">>)
            /\ EndsWith(p_hist[u], <<"F", "S", "F">>) => AttemptsOf(u) = 1)
    /\ [][\A u \in Users :
            (/\ EndsWith(p_hist[u], <<"F", "S", "F">>)
             /\ p_call'.user = u
             /\ p_root'
             /\ p_call'.password = "s3cretpass")
                => (p_call'.returned /\ <<u, TRUE>> \in p_perms')]_vars

\* refused, granted, refused, granted
C30_Witness ==
    /\ p_hist["alice"] = <<"F", "S", "F", "S">>
    /\ p_call = [user |-> "alice", password |-> "s3cretpass", returned |-> TRUE]
    /\ <<"alice", TRUE>> \in p_perms

----------------------------------------------------------------------------
(* The runner: order of the checks and the arithmetic of the bounds check *)

\* &self.data[offset..offset + length] was evaluated for record k: the slice
\* was taken, or the expression panicked
SliceAttempted(k) ==
    \/ k \in sliced
    \/ pc = "Panicked" /\ result = "slice index starts past its end" /\ idx = k

\* offset + length of record k does not fit the usize of the build
SumLeavesUsize(k) ==
    /\ build \in {"x86-debug", "x86-release"}
    /\ sections[k].offset[1] + sections[k].length[1]
         + (sections[k].offset[2] + sections[k].length[2]) \div 65536 >= 65536

\* C27: the three checks come in the order bounds, hash, compatibility: a
\* record whose offset + length exceeds the buffer length is never sliced or
\* hashed, and the compatibility check is made only for records that are
\* in range and carry the digest of their bytes.
C27_CheckOrder ==
    /\ sliced \subseteq boundsChecked
    /\ hashed \subseteq sliced
    /\ compatChecked \subseteq hashed
    /\ \A k \in Records :
          ~InRange(k) => (~SliceAttempted(k) /\ k \notin hashed /\ k \notin compatChecked)
    /\ \A k \in compatChecked : InRange(k) /\ HashValid(k)

\* C28: for every offset and length a record stores, the sum the bounds
\* check uses does not leave usize, and every slice expression the run
\* evaluates has 0 <= offset <= offset + length <= buffer length.
C28_NoWrapInBounds ==
    /\ \A k \in Range(examined) : ~SumLeavesUsize(k)
    /\ \A k \in Records : SliceAttempted(k) => InRange(k)

----------------------------------------------------------------------------
(* The process scanner *)

CasePairs ==
    {<<"g", "G">>, <<"d", "D">>, <<"b", "B">>, <<"s", "S">>, <<"h", "H">>, <<"a", "A">>}

SameLetter(a, b) == a = b \/ <<a, b>> \in CasePairs \/ <<b, a>> \in CasePairs

\* some forbidden pattern occurs in the command, letter case ignored
Forbidden(cmd) ==
    \E k \in 1..Len(h_patterns) :
        \E i \in 0..(Len(cmd) - Len(h_patterns[k])) :
            \A j \in 1..Len(h_patterns[k]) : SameLetter(cmd[i + j], h_patterns[k][j])

\* C22: on_violation is called at most once; it is called exactly when
\* start_scan has returned, for the first process of the last scan whose
\* command contains a forbidden pattern, and after the return nothing is
\* scanned again; while start_scan runs no process scanned so far matched,
\* a scan without a match leaves it running, and the next scan can be made.
C22_FiresOnceThenStops ==
    /\ [](/\ Len(h_fired) <= 1
          /\ h_pc = "returned" <=> Len(h_fired) = 1
          /\ h_pc = "returned" =>
                \E i \in 1..Len(h_last) :
                    /\ Forbidden(h_last[i].command)
                    /\ \A j \in 1..(i - 1) : ~Forbidden(h_last[j].command)
                    /\ h_fired[1] = [pid |-> h_last[i].pid, cmd |-> h_last[i].command]
          /\ h_pc = "scanning" =>
                /\ \A i \in 1..Len(h_last) : ~Forbidden(h_last[i].command)
                /\ ENABLED Scan)
    /\ [][/\ h_pc = "returned" => UNCHANGED <<h_last, h_scans, h_fired, h_pc>>
          /\ (\A i \in 1..Len(h_last') : ~Forbidden(h_last'[i].command))
                => h_pc' = "scanning"
          /\ (\E i \in 1..Len(h_last') : Forbidden(h_last'[i].command))
                => h_pc' = "returned"]_vars

\* after scans without a match, the second process of a scan matched a
\* pattern in another letter case
C22_Witness ==
    /\ h_pc = "returned"
    /\ h_scans = 2
    /\ h_patterns = <<<<"G", "d", "B">>>>
    /\ h_last[1].command = <<"s", "h">>
    /\ h_fired = <<[pid |-> 102, cmd |-> <<"a", "g", "D", "b", "a">>]>>

----------------------------------------------------------------------------
(* The fingerprint verifier *)

\* C23: what verify returns for a name that has no recorded fingerprint
\* differs from what it returns for a recorded name whose content does not
\* hash to the fingerprint.
C23_UnknownDistinct ==
    (k_unknown.called /\ k_mismatch.called)
        => k_unknown.returned # k_mismatch.returned

----------------------------------------------------------------------------
(* The bundle builder *)

\* the text of the base name of each path drawn: "a", "b.c", "q", and "n",
\* U+FFFD, "m" for the name that is not UTF-8
BaseNameText(path) ==
    CASE path = <<97>> -> <<97>>
      [] path = <<100, 47, 98, 46, 99>> -> <<98, 46, 99>>
      [] path = <<47, 120, 47, 100, 46, 101, 47, 113>> -> <<113>>
      [] path = <<110, 255, 109>> -> <<110, 239, 191, 189, 109>>

\* "--FILE:<name>--\n", the content, "\n--END--\n" for the files from k on
RECURSIVE FramedFrom(_, _)
FramedFrom(files, k) ==
    IF k > Len(files) THEN <<>>
    ELSE <<45, 45, 70, 73, 76, 69, 58>> \o BaseNameText(files[k].path)
            \o <<45, 45, 10>> \o files[k].content
            \o <<10, 45, 45, 69, 78, 68, 45, 45, 10>> \o FramedFrom(files, k + 1)

\* the stream of a file list
Framed(files) ==
    <<80, 83, 69, 76, 70, 118, 49, 50, 10>> \o FramedFrom(files, 1)
        \o <<80, 83, 69, 76, 70, 45, 69, 78, 68, 10>>

\* C24: when create_pself returns Ok the output holds exactly "PSELFv12\n",
\* then for each file in input order "--FILE:<base name>--\n", its bytes
\* verbatim and "\n--END--\n", then "PSELF-END\n": k FILE and k END markers
\* of the builder for k files, and "PSELFv12\nPSELF-END\n" for the empty
\* list.  Before that, and after a failed write, the output is a prefix of
\* that stream.
C24_BundleFraming ==
    /\ b_pc = "done" =>
          /\ b_out = Framed(b_files)
          /\ b_i = Len(b_files)
          /\ b_files = <<>> => b_out = <<80, 83, 69, 76, 70, 118, 49, 50, 10, 80, 83, 69, 76, 70, 45, 69, 78, 68, 10>>
    /\ b_pc \in {"magic", "files", "failed"} =>
          /\ Len(b_out) < Len(Framed(b_files))
          /\ b_out = SubSeq(Framed(b_files), 1, Len(b_out))
    /\ b_pc \notin {"idle", "create", "magic", "files", "failed", "done"} => FALSE

\* two files written, the second one's name not UTF-8 and its content
\* holding the builder's markers
C24_Witness ==
    /\ b_pc = "done"
    /\ Len(b_files) = 2
    /\ b_files[1].path = <<100, 47, 98, 46, 99>>
    /\ b_files[2].path = <<110, 255, 109>>
    /\ b_files[2].content # <<>>

----------------------------------------------------------------------------
(* The watcher *)

\* C25: after the watcher has processed a change event for a tracked file
\* whose recomputed line checksums differ from the baseline, with
\* SERIALK_KEY other than "AUTHORIZED", the process has exited, in every
\* watch mode.
C25_TamperExits ==
    (/\ w_last.tracked
     /\ w_last.changed
     /\ w_key # "AUTHORIZED"
     /\ w_last.mode.kind = "Count" => w_last.mode.count >= 1) => w_pc = "exited"

----------------------------------------------------------------------------
(* The kernel value *)

\* the sum of the j-th bytes of the first n words of wl bytes
RECURSIVE ColumnSum(_, _, _, _)
ColumnSum(bytes, wl, j, n) ==
    IF n = 0 THEN 0 ELSE bytes[(n - 1) * wl + j] + ColumnSum(bytes, wl, j, n - 1)

\* the eight base-256 digits, least significant first, of the number whose
\* j-th digit weight carries cols[j]; what exceeds eight digits is dropped
RECURSIVE Base256(_, _, _)
Base256(cols, j, carry) ==
    IF j > 8 THEN <<>>
    ELSE LET t == (IF j <= Len(cols) THEN cols[j] ELSE 0) + carry
         IN  <<t % 256>> \o Base256(cols, j + 1, t \div 256)

\* the sum modulo 2^64 of the first n little-endian words of wl bytes
LittleWordSum(bytes, wl, n) ==
    LET d == Base256([j \in 1..wl |-> ColumnSum(bytes, wl, j, n)], 1, 0)
    IN  <<d[8] * 256 + d[7], d[6] * 256 + d[5], d[4] * 256 + d[3], d[2] * 256 + d[1]>>

WordLen == IF kv_spec.word_size = "Bits32" THEN 4 ELSE 8

\* C26: for a little-endian spec compute_kernel_value returns the sum
\* modulo 2^64 of the floor(len / word_len) consecutive words of the bytes
\* read as unsigned little-endian integers, word_len being 4 for Bits32 and
\* 8 for Bits64; the len mod word_len bytes after them have no part in it.
C26_LittleEndianSum ==
    kv_spec.endian = "Little" =>
        /\ kv_pc = "loop" => kv_acc = LittleWordSum(kv_bytes, WordLen, kv_i)
        /\ kv_pc = "returned" =>
              /\ kv_i = Len(kv_bytes) \div WordLen
              /\ kv_acc = LittleWordSum(kv_bytes, WordLen, Len(kv_bytes) \div WordLen)

\* two 64-bit words whose sum passes 2^64, with three bytes behind them
C26_Witness ==
    /\ kv_pc = "returned"
    /\ kv_spec.endian = "Little"
    /\ kv_spec.word_size = "Bits64"
    /\ kv_bytes = <<255, 255, 255, 255, 255, 255, 255, 255,
                    1, 2, 3, 4, 0, 0, 0, 128, 255, 255, 255>>
    /\ kv_acc = <<32768, 0, 1027, 512>>

----------------------------------------------------------------------------
(* Permissions of a locked-out user *)

\* C31: in every reachable state a user whose failed-attempt counter has
\* reached MAX_ATTEMPTS has no granted permission: check_permission returns
\* false for it, also when the permission was granted before the failures.
C31_LockedNotGranted ==
    \A u \in Users :
        AttemptsOf(u) >= MAX_ATTEMPTS => ~check_permission(p_perms, u)

----------------------------------------------------------------------------
(* Concurrent calls *)

\* C32: under any interleaving of request_permission calls made by several
\* threads on one PermissionManager, the failed-attempt counter of each user
\* stays within 0..MAX_ATTEMPTS and at most MAX_ATTEMPTS wrong passwords are
\* compared for a user between two granted calls; between the test of the
\* counter by a thread and its increment no other call changes the counters,
\* and only the thread holding both mutexes is between the two.
C32_AtomicCounting ==
    /\ [](/\ \A u \in Users : AttemptsOf(u) \in 0..MAX_ATTEMPTS
          /\ \A u \in Users : t_wrong[u] <= MAX_ATTEMPTS
          /\ \A t \in Threads :
                t_pc[t] \in {"check", "increment"} =>
                    /\ t_lock = [attempts |-> t, perms |-> t]
                    /\ \A o \in Threads \ {t} : t_pc[o] \notin {"check", "increment"})
    /\ [][\A t \in Threads :
            (t_pc[t] = "increment" /\ t_pc'[t] = "increment")
                => p_attempts' = p_attempts]_vars

\* one thread is between the test and the increment for a user with one
\* failure, the other waits at the first mutex with a wrong password for the
\* same user
C32_Witness ==
    /\ t_pc["t1"] = "increment"
    /\ t_pc["t2"] = "lock_attempts"
    /\ t_call["t1"].user = t_call["t2"].user
    /\ t_call["t2"].password # VALID_PASSWORD
    /\ AttemptsOf(t_call["t1"].user) = 1

----------------------------------------------------------------------------
(* The spawned monitor *)

\* C33: started as `serialkiller hfs <pattern>` while a matching process
\* keeps running, the program does not exit before the spawned task has
\* made its first scan, and the violation callback is eventually called.
C33_MonitorScansAndFires ==
    /\ [](hm_pc = "exited" => h_scans >= 1)
    /\ <>(h_fired # <<>>)

----------------------------------------------------------------------------
(* The count of a liner watch *)

\* the remaining count of a path watched with a count
CountNow(path) == (CHOOSE e \in w_files : e[1] = path)[2].liner_watch.count

\* the paths added with LineWatch::Count
Counted == {e[1] : e \in {g \in w_given : g[2].mode.kind = "Count"}}

GivenOf(path) == (CHOOSE e \in w_given : e[1] = path)[2]

\* what C34 says of the count itself: it stays within 0 and the count given
\* and never rises; it falls only in an update of that path that saw a
\* difference from the baseline, and by one; an update made at count 0
\* returns false
CountSteps ==
    /\ [](\A path \in Counted : CountNow(path) \in 0..GivenOf(path).mode.count)
    /\ [][\A path \in Counted :
            /\ CountNow(path)' <= CountNow(path)
            /\ CountNow(path)' < CountNow(path) =>
                  /\ CountNow(path)' = CountNow(path) - 1
                  /\ w_last'.path = path
                  /\ w_last'.changed
            /\ (CountNow(path) = 0 /\ w_events # w_events' /\ w_last'.path = path)
                  => ~w_last'.reported]_vars

\* C34 as stated: for a file watched with Count(n) the count only decreases,
\* stays at or above 0 and decreases only on an update that sees a
\* difference; update returns true at most n - 1 times, and never once the
\* count is 0.
C34_AtMostNMinus1 ==
    /\ CountSteps
    /\ [](\A path \in Counted :
            GivenOf(path).trues <= GivenOf(path).mode.count - 1)

\* C34 amended: update returns true at most n - 1 times for n >= 1 and never
\* for n = 0; the rest as stated.
C34_AtMostNMinus1OrNever ==
    /\ CountSteps
    /\ [](\A path \in Counted :
            GivenOf(path).trues <=
                IF GivenOf(path).mode.count >= 1
                THEN GivenOf(path).mode.count - 1 ELSE 0)

\* a file added with Count(2) whose count is used up: the first change was
\* reported, the last update saw a change and returned false
C34_Witness ==
    /\ "f" \in Counted
    /\ GivenOf("f").mode.count = 2
    /\ GivenOf("f").trues = 1
    /\ CountNow("f") = 0
    /\ w_last.path = "f" /\ w_last.changed /\ ~w_last.reported

----------------------------------------------------------------------------
(* The two section decoders *)

\* C35: on the 73 bytes that format.rs to_bytes makes of an entry whose name
\* has at most 32 bytes and no NUL byte, format.rs from_bytes and runner.rs
\* from_bytes both fail, or both succeed with the same type, name, offset,
\* length and hash.
C35_DecodersAgree ==
    (/\ s_entry # NoEntry
     /\ Len(s_entry.name) <= 32
     /\ 0 \notin Range(s_entry.name)
     /\ s_sec_fmt # NotRun
     /\ s_sec_run # NotRun)
        => /\ s_buf = s_enc.val
           /\ Len(s_buf) = 73
           /\ s_sec_fmt.ok = s_sec_run.ok
           /\ s_sec_fmt.ok =>
                /\ s_sec_fmt.val.section_type = s_sec_run.val.section_type
                /\ s_sec_fmt.val.name = s_sec_run.val.name
                /\ s_sec_fmt.val.offset = s_sec_run.val.offset
                /\ s_sec_fmt.val.length = s_sec_run.val.length
                /\ s_sec_fmt.val.hash = s_sec_run.val.hash

\* both decoders have read the record of an entry with a 32-byte name and
\* the largest offset, and of one with the empty name
C35_Witness ==
    /\ s_entry # NoEntry
    /\ s_entry.name \in {<<>>, [k \in 1..32 |-> 97]}
    /\ s_entry.offset = <<65535, 65535>>
    /\ s_sec_fmt.ok
    /\ s_sec_run.ok
    /\ s_sec_run.val.name = s_entry.name

====
